---------------------------- MODULE Spec2Model ----------------------------
(***************************************************************************)
(* A model of parts of the ohm occupancy map library:                      *)
(*   - voxel key stepping (OccupancyMapDetail::moveKeyAlongAxis),          *)
(*   - VoxelBuffer retain/release against the compression coordinator,     *)
(*   - the NDT voxel kernel (CovarianceVoxel.h),                           *)
(*   - the heightmap column search (Heightmap.cpp).                        *)
(* Each part has its own specification (SpecKey, SpecBuf, SpecNdt,         *)
(* SpecHm); the variables of the other parts stay at their initial value.  *)
(***************************************************************************)
EXTENDS Integers, Sequences, FiniteSets, Bags, TLC

VARIABLES
  \* ---- key stepping ----
  region_voxel_dimensions,  \* OccupancyMapDetail::region_voxel_dimensions (per axis)
  key,                      \* the Key being stepped: [region |-> <<x,y,z>>, local |-> <<x,y,z>>]
  mk,                       \* record of the last moveKeyAlongAxis call
  \* ---- voxel buffers ----
  buffers,                  \* the VoxelBuffer objects, by slot
  reference_count,          \* per VoxelBlock: retain() calls not yet released
  compressed,               \* per VoxelBlock: TRUE while its memory is compressed
  \* ---- NDT voxel kernel ----
  ndt_cfg,                  \* the map's occupancy and NDT settings
  voxel,                    \* one voxel: occupancy value, covariance, mean, count
  ndt_last,                 \* record of the last hit or miss applied to the voxel
  \* ---- heightmap column search ----
  hm_cfg,                   \* heightmap settings (up axis, clearance, flags)
  column,                   \* the source map voxels of one column
  hm_last,                  \* record of the last column search
  \* ---- map detail and version 0 load ----
  detail,                   \* per map: OccupancyMapDetail::stamp and ::chunks
  g_quit,                   \* signals counted by onSignal
  load,                     \* the running v0::load call: position and locals
  \* ---- single objects and calls ----
  traversal,                \* the traversal layer value of one voxel and the rays integrated
  normal,                   \* an incident normal, its packed form and the decoded normal
  find,                     \* a chunk map, a region key and the result of findRegion
  heightmap,                \* a Heightmap: its source map and the cells generated
  key_list,                 \* a KeyList: keys, capacity and count
  occupancy                 \* two map details: occupancy values and cached probabilities

keyVars == <<region_voxel_dimensions, key, mk>>
bufVars == <<buffers, reference_count, compressed>>
ndtVars == <<ndt_cfg, voxel, ndt_last>>
hmVars == <<hm_cfg, column, hm_last>>
mapVars == <<detail, g_quit, load>>
objVars == <<traversal, normal, find, heightmap, key_list, occupancy>>

vars == <<keyVars, bufVars, ndtVars, hmVars, mapVars, objVars>>

-----------------------------------------------------------------------------
(***************************************************************************)
(* The value every part keeps while another part's specification runs.     *)
(***************************************************************************)
NoMove == [done |-> FALSE, axis |-> 1, step |-> 0, from |-> <<0, 0>>]

IdleKeyVars ==
  /\ region_voxel_dimensions = <<1, 1, 1>>
  /\ key = [region |-> <<0, 0, 0>>, local |-> <<0, 0, 0>>]
  /\ mk = NoMove

IdleBufVars ==
  /\ buffers = <<>>
  /\ reference_count = <<>>
  /\ compressed = <<>>

IdleNdtVars ==
  /\ ndt_cfg = <<>>
  /\ voxel = <<>>
  /\ ndt_last = <<>>

IdleHmVars ==
  /\ hm_cfg = <<>>
  /\ column = <<>>
  /\ hm_last = <<>>

IdleMapVars ==
  /\ detail = <<>>
  /\ g_quit = 0
  /\ load = <<>>

IdleObjVars ==
  /\ traversal = <<>>
  /\ normal = <<>>
  /\ find = <<>>
  /\ heightmap = <<>>
  /\ key_list = <<>>
  /\ occupancy = <<>>

\* The element of a one-element set.  A value bound through a set is computed
\* once, however often the expression using it refers to it.
The(S) == CHOOSE x \in S : TRUE

-----------------------------------------------------------------------------
(***************************************************************************)
(* C integer arithmetic.  TLA+ \div and % floor; C truncates toward zero.  *)
(***************************************************************************)
CDiv(a, b) == IF a >= 0 THEN a \div b ELSE -((-a) \div b)

CRem(a, b) == a - b * CDiv(a, b)

\* Conversion to a 16 bit signed integer (glm::i16vec3 element).
ToInt16(x) == ((x + 32768) % 65536) - 32768

\* Conversion to an 8 bit unsigned integer (Key local coordinate).
ToUint8(x) == x % 256

-----------------------------------------------------------------------------
(***************************************************************************)
(* Key stepping.  Axes 0,1,2 of the code are indices 1,2,3 of the tuples.  *)
(***************************************************************************)
MaxDim == 3      \* largest region dimension (voxels per axis)
MaxRegion == 1   \* region coordinates explored: -MaxRegion..MaxRegion
MaxStep == 5     \* steps explored: -MaxStep..MaxStep

Axes == 1..3

\* OccupancyMapDetail::moveKeyAlongAxis with the negative-step branch dividing
\* the stepped local coordinate without the (limit - 1) bias.
MoveKeyAlongAxis_NoBias(k, axis, step, dims) ==
  LET local_limit == dims[axis]
      local_key   == k.local[axis] + step
      wrapped     == local_limit + CRem(local_key, local_limit)
  IN  IF step = 0 THEN k
      ELSE IF step > 0
        THEN [region |-> [k.region EXCEPT ![axis] = ToInt16(@ + CDiv(local_key, local_limit))],
              local  |-> [k.local EXCEPT ![axis] = ToUint8(CRem(local_key, local_limit))]]
        ELSE [region |-> [k.region EXCEPT ![axis] = ToInt16(@ + CDiv(local_key, local_limit))],
              local  |-> [k.local EXCEPT ![axis] =
                            ToUint8(IF local_key < 0
                                      THEN (IF wrapped = local_limit THEN 0 ELSE wrapped)
                                      ELSE local_key)]]

\* OccupancyMapDetail::moveKeyAlongAxis without the "== local_limits" fix-up
\* after the negative remainder.
MoveKeyAlongAxis_NoWrapFix(k, axis, step, dims) ==
  LET local_limit == dims[axis]
      local_key   == k.local[axis] + step
      wrapped     == local_limit + CRem(local_key, local_limit)
  IN  IF step = 0 THEN k
      ELSE IF step > 0
        THEN [region |-> [k.region EXCEPT ![axis] = ToInt16(@ + CDiv(local_key, local_limit))],
              local  |-> [k.local EXCEPT ![axis] = ToUint8(CRem(local_key, local_limit))]]
        ELSE [region |-> [k.region EXCEPT ![axis] =
                            ToInt16(@ + CDiv(local_key - (local_limit - 1), local_limit))],
              local  |-> [k.local EXCEPT ![axis] =
                            ToUint8(IF local_key < 0 THEN wrapped ELSE local_key)]]

\* OccupancyMapDetail::moveKeyAlongAxis(key, axis, step, region_voxel_dimensions)
MoveKeyAlongAxis(k, axis, step, dims) ==
  LET local_limit == dims[axis]
      local_key   == k.local[axis] + step           \* local_key[axis] += step
      wrapped     == local_limit + CRem(local_key, local_limit)
  IN  IF step = 0 THEN k
      ELSE IF step > 0
        THEN [region |-> [k.region EXCEPT ![axis] = ToInt16(@ + CDiv(local_key, local_limit))],
              local  |-> [k.local EXCEPT ![axis] = ToUint8(CRem(local_key, local_limit))]]
        ELSE [region |-> [k.region EXCEPT ![axis] =
                            ToInt16(@ + CDiv(local_key - (local_limit - 1), local_limit))],
              local  |-> [k.local EXCEPT ![axis] =
                            ToUint8(IF local_key < 0
                                      THEN (IF wrapped = local_limit THEN 0 ELSE wrapped)
                                      ELSE local_key)]]

\* The region dimensions explored: every axis order of 1, 2 and MaxDim voxels.
DimChoices == { <<1, 2, MaxDim>>, <<MaxDim, 1, 2>>, <<2, MaxDim, 1>> }

RegionRange == (-MaxRegion)..MaxRegion

\* Valid keys for region dimensions dims: local[axis] in [0, dims[axis]).
ValidKeys(dims) ==
  { [region |-> r, local |-> l] :
      r \in RegionRange \X RegionRange \X RegionRange,
      l \in { t \in (0..(MaxDim-1)) \X (0..(MaxDim-1)) \X (0..(MaxDim-1)) :
                \A a \in Axes : t[a] < dims[a] } }

InitKeyVars ==
  /\ region_voxel_dimensions \in DimChoices
  /\ key \in ValidKeys(region_voxel_dimensions)
  /\ mk = NoMove

\* One call of moveKeyAlongAxis(key, axis, step).  The explored keys stay in
\* the region window, far inside the int16 range of a region coordinate.
MoveKey(axis, step) ==
  LET moved == MoveKeyAlongAxis(key, axis, step, region_voxel_dimensions)
  IN  /\ moved.region[axis] \in RegionRange
      /\ key' = moved
      /\ mk' = [done |-> TRUE, axis |-> axis, step |-> step,
                from |-> <<key.region[axis], key.local[axis]>>]
      /\ UNCHANGED region_voxel_dimensions
      /\ UNCHANGED <<bufVars, ndtVars, hmVars, mapVars, objVars>>

NextKey == \E axis \in Axes, step \in (-MaxStep)..MaxStep : MoveKey(axis, step)

InitKey == InitKeyVars /\ IdleBufVars /\ IdleNdtVars /\ IdleHmVars /\ IdleMapVars /\ IdleObjVars

SpecKey == InitKey /\ [][NextKey]_vars

\* Linear voxel index of a key on one axis: region * region_dim + local.
AxisIndex(region, local, axis) == region * region_voxel_dimensions[axis] + local

\* Floored quotient of a by b (b > 0).
FloorDiv(a, b) == a \div b

\* C2: step consistency. After moveKeyAlongAxis(k, axis, n) the voxel index of
\* the key on that axis has changed by exactly n:
\* region'*region_dim + local' = region*region_dim + local + n.
C2_StepConsistency ==
  mk.done =>
    AxisIndex(key.region[mk.axis], key.local[mk.axis], mk.axis)
      = AxisIndex(mk.from[1], mk.from[2], mk.axis) + mk.step

\* C2 witness: a negative step that crossed more than one region boundary.
C2_Witness ==
  /\ mk.done
  /\ mk.step < 0
  /\ key.region[mk.axis] <= mk.from[1] - 2

\* C3: after moveKeyAlongAxis the local coordinate on the stepped axis is in
\* [0, region_dim) and the region coordinate has changed by the floored
\* quotient of (local + step) by region_dim.
C3_LocalInRange ==
  mk.done =>
    /\ key.local[mk.axis] >= 0
    /\ key.local[mk.axis] < region_voxel_dimensions[mk.axis]
    /\ key.region[mk.axis]
         = mk.from[1] + FloorDiv(mk.from[2] + mk.step, region_voxel_dimensions[mk.axis])

\* C3 witness: a negative step landing exactly on a region boundary (the
\* remainder is zero, the case the fix-up in the code handles).
C3_Witness ==
  /\ mk.done
  /\ mk.step < 0
  /\ mk.from[2] + mk.step < 0
  /\ key.local[mk.axis] = 0
  /\ region_voxel_dimensions[mk.axis] > 1

-----------------------------------------------------------------------------
(***************************************************************************)
(* VoxelBuffer (VoxelBuffer.cpp) over VoxelBlock objects.  A VoxelBlock is *)
(* known here through the calls VoxelBuffer makes on it: retain(),         *)
(* release(), uncompressedByteSize() and voxelBytes().  Block 0 stands for *)
(* the null pointer.  Each VoxelBuffer operation and each coordinator step *)
(* is one atomic action (VoxelBlock serialises retain/release/compress).   *)
(***************************************************************************)
NumBuffers == 3   \* VoxelBuffer objects that may exist at once
NumBlocks == 2    \* VoxelBlock objects

Slots == 1..NumBuffers
Blocks == 1..NumBlocks

\* A VoxelBuffer with its default member values (no block).
NullBuffer == [live |-> FALSE, voxel_block |-> 0, voxel_memory |-> 0, voxel_memory_size |-> 0]

\* VoxelBlock::uncompressedByteSize(): a fixed, non-zero size per block.
UncompressedByteSize(b) == 4 * b

\* VoxelBlock::retain(): counts the holder and makes the memory available
\* uncompressed.
BlockRetain(w, b) ==
  [w EXCEPT !.reference_count[b] = @ + 1, !.compressed[b] = FALSE]

\* VoxelBlock::release(): one holder less.
BlockRelease(w, b) ==
  [w EXCEPT !.reference_count[b] = @ - 1]

\* release() that keeps the block pointer after releasing the block.
VoxelBufferRelease_KeepBlock(w, i) ==
  IF w.buffers[i].voxel_block # 0
    THEN BlockRelease(w, w.buffers[i].voxel_block)
    ELSE w

\* VoxelBuffer::release()
VoxelBufferRelease(w, i) ==
  IF w.buffers[i].voxel_block # 0
    THEN [BlockRelease(w, w.buffers[i].voxel_block) EXCEPT
            !.buffers[i].voxel_block = 0,
            !.buffers[i].voxel_memory = 0,
            !.buffers[i].voxel_memory_size = 0]
    ELSE w

\* VoxelBuffer::VoxelBuffer(VoxelBlock *block)
VoxelBufferCtor(w, i, block) ==
  IF block # 0
    THEN [BlockRetain(w, block) EXCEPT
            !.buffers[i] = [live |-> TRUE, voxel_block |-> block,
                            voxel_memory |-> block,
                            voxel_memory_size |-> UncompressedByteSize(block)]]
    ELSE [w EXCEPT !.buffers[i] = [NullBuffer EXCEPT !.live = TRUE]]

\* VoxelBuffer::VoxelBuffer(VoxelBuffer &&other)
VoxelBufferMoveCtor(w, i, other) ==
  [w EXCEPT !.buffers[i] = w.buffers[other],
            !.buffers[other] = [NullBuffer EXCEPT !.live = TRUE]]

\* The copy constructor taking the other buffer's block without retain().
VoxelBufferCopyCtor_NoRetain(w, i, other) ==
  [w EXCEPT !.buffers[i] = w.buffers[other]]

\* VoxelBuffer::VoxelBuffer(const VoxelBuffer &other)
VoxelBufferCopyCtor(w, i, other) ==
  LET copied == [w EXCEPT !.buffers[i] = w.buffers[other]]
  IN  IF copied.buffers[i].voxel_block # 0
        THEN BlockRetain(copied, copied.buffers[i].voxel_block)
        ELSE copied

\* VoxelBuffer::~VoxelBuffer()
VoxelBufferDtor(w, i) ==
  [VoxelBufferRelease(w, i) EXCEPT !.buffers[i] = NullBuffer]

\* VoxelBuffer::operator=(VoxelBuffer &&other): the members are swapped.
VoxelBufferMoveAssign(w, i, other) ==
  [w EXCEPT !.buffers[i] = w.buffers[other], !.buffers[other] = w.buffers[i]]

\* VoxelBuffer::operator=(const VoxelBuffer &other)
VoxelBufferCopyAssign(w, i, other) ==
  IF i # other
    THEN LET released == VoxelBufferRelease(w, i)
             block    == released.buffers[other].voxel_block
             taken    == [released EXCEPT !.buffers[i].voxel_block = block]
         IN  IF block # 0
               THEN [BlockRetain(taken, block) EXCEPT
                       !.buffers[i].voxel_memory_size = UncompressedByteSize(block),
                       !.buffers[i].voxel_memory = block]
               ELSE taken
    ELSE w

\* The buffers and blocks as one value, and its installation as next state.
World == [buffers |-> buffers, reference_count |-> reference_count, compressed |-> compressed]

Install(w) ==
  /\ buffers' = w.buffers
  /\ reference_count' = w.reference_count
  /\ compressed' = w.compressed
  /\ UNCHANGED <<keyVars, ndtVars, hmVars, mapVars, objVars>>

Construct(i, block) ==
  /\ ~buffers[i].live
  /\ Install(VoxelBufferCtor(World, i, block))

MoveConstruct(i, other) ==
  /\ ~buffers[i].live /\ buffers[other].live
  /\ Install(VoxelBufferMoveCtor(World, i, other))

CopyConstruct(i, other) ==
  /\ ~buffers[i].live /\ buffers[other].live
  /\ Install(VoxelBufferCopyCtor(World, i, other))

Destroy(i) ==
  /\ buffers[i].live
  /\ Install(VoxelBufferDtor(World, i))

MoveAssign(i, other) ==
  /\ buffers[i].live /\ buffers[other].live
  /\ Install(VoxelBufferMoveAssign(World, i, other))

CopyAssign(i, other) ==
  /\ buffers[i].live /\ buffers[other].live
  /\ Install(VoxelBufferCopyAssign(World, i, other))

Release(i) ==
  /\ buffers[i].live
  /\ Install(VoxelBufferRelease(World, i))

\* The background compression coordinator compresses a block that no holder
\* retains (any watermark setting: it may pick any such block at any time).
CompressBlock(b) ==
  /\ reference_count[b] = 0
  /\ ~compressed[b]
  /\ compressed' = [compressed EXCEPT ![b] = TRUE]
  /\ UNCHANGED <<buffers, reference_count>>
  /\ UNCHANGED <<keyVars, ndtVars, hmVars, mapVars, objVars>>

InitBufVars ==
  /\ buffers = [i \in Slots |-> NullBuffer]
  /\ reference_count = [b \in Blocks |-> 0]
  /\ compressed = [b \in Blocks |-> FALSE]

NextBuf ==
  \/ \E i \in Slots, block \in 0..NumBlocks : Construct(i, block)
  \/ \E i \in Slots, other \in Slots : MoveConstruct(i, other)
  \/ \E i \in Slots, other \in Slots : CopyConstruct(i, other)
  \/ \E i \in Slots : Destroy(i)
  \/ \E i \in Slots, other \in Slots : MoveAssign(i, other)
  \/ \E i \in Slots, other \in Slots : CopyAssign(i, other)
  \/ \E i \in Slots : Release(i)
  \/ \E b \in Blocks : CompressBlock(b)

InitBuf == InitBufVars /\ IdleKeyVars /\ IdleNdtVars /\ IdleHmVars /\ IdleMapVars /\ IdleObjVars

SpecBuf == InitBuf /\ [][NextBuf]_vars

\* The live VoxelBuffer objects holding block b.
Holders(b) == { i \in Slots : buffers[i].live /\ buffers[i].voxel_block = b }

\* C1: a voxel block is never compressed while a VoxelBuffer holds it: for
\* every block with at least one holder the retain count is positive and the
\* memory is uncompressed.
C1_NoCompressionWhileHeld ==
  \A b \in Blocks :
    Holders(b) # {} => (reference_count[b] > 0 /\ ~compressed[b])

\* C1 witness: one block is held by two buffers (one made by copy) while the
\* coordinator has compressed the other, unheld block.
C1_Witness ==
  \E b \in Blocks, c \in Blocks :
    /\ Cardinality(Holders(b)) >= 2
    /\ reference_count[b] >= 2
    /\ compressed[c]
    /\ Holders(c) = {}

\* C24: for every voxel block, retain() calls minus release() calls equals the
\* number of live VoxelBuffer objects referencing the block, and is therefore
\* never negative, after any sequence of constructions (from a block or
\* null), copy and move construction, copy and move assignment (self
\* assignment included), release() (repeated release included) and
\* destruction.
C24_RetainCountIsHolders ==
  \A b \in Blocks :
    /\ reference_count[b] = Cardinality(Holders(b))
    /\ reference_count[b] >= 0

\* C24 witness: one block has two holders and a count of two while another
\* live buffer references no block (it was released or moved from) and the
\* other block has no holder and a count of zero.
C24_Witness ==
  \E b \in Blocks, c \in Blocks, i \in Slots :
    /\ Cardinality(Holders(b)) = 2
    /\ reference_count[b] = 2
    /\ buffers[i].live /\ buffers[i].voxel_block = 0
    /\ compressed[c] /\ reference_count[c] = 0

-----------------------------------------------------------------------------
(***************************************************************************)
(* Floating point values.  A float is <<kind, n>>: a finite value n in     *)
(* fixed point, NaN, +Inf or -Inf, with the IEEE rules the code relies on  *)
(* (NaN compares unequal to itself, x + -Inf = -Inf, log(0) = -Inf).       *)
(* Occupancy values are in tenths of a log-odds unit, probabilities in     *)
(* eighths, lengths and covariance entries in 1/4096.                      *)
(***************************************************************************)
Fin(n) == <<"fin", n>>
NaN == <<"nan", 0>>
PosInf == <<"pinf", 0>>
NegInf == <<"ninf", 0>>

IsFin(x) == x[1] = "fin"
IsNaN(x) == x[1] = "nan"

\* operator== on floats
FEq(x, y) == ~IsNaN(x) /\ ~IsNaN(y) /\ x = y

\* operator< on floats
FLt(x, y) ==
  IF IsNaN(x) \/ IsNaN(y) THEN FALSE
  ELSE IF x = PosInf \/ y = NegInf THEN FALSE
  ELSE IF x = NegInf \/ y = PosInf THEN TRUE
  ELSE x[2] < y[2]

\* operator+ on floats
FAdd(x, y) ==
  IF IsNaN(x) \/ IsNaN(y) THEN NaN
  ELSE IF IsFin(x) /\ IsFin(y) THEN Fin(x[2] + y[2])
  ELSE IF IsFin(x) THEN y
  ELSE IF IsFin(y) THEN x
  ELSE IF x = y THEN x
  ELSE NaN

\* std::min(a, b) and std::max(a, b)
StdMin(a, b) == IF FLt(b, a) THEN b ELSE a
StdMax(a, b) == IF FLt(a, b) THEN b ELSE a

\* The probability 1.0 and 0.5 of calculateMissNdt, in eighths.
ProbOne == 8
ProbHalf == 4

\* 1.0 in the 1/4096 fixed point of lengths and covariance entries.
One == 4096

FMul(a, b) == CDiv(a * b, One)
FDiv(a, b) == CDiv(a * One, b)

\* The integer r in lo..hi-1 with r*r <= n < (r+1)*(r+1), by bisection.
RECURSIVE ISqrtBetween(_, _, _)
ISqrtBetween(n, lo, hi) ==
  IF hi - lo <= 1 THEN lo
  ELSE LET mid == (lo + hi) \div 2
       IN  IF mid * mid <= n THEN ISqrtBetween(n, mid, hi) ELSE ISqrtBetween(n, lo, mid)

\* sqrt() of a fixed point value
FSqrt(a) == ISqrtBetween(a * One, 0, 46340)

\* log(p / (1 - p)) for p in eighths, as an occupancy value (tenths).
LogOdds(p) ==
  CASE p <= 0 -> (IF p = 0 THEN NegInf ELSE NaN)
    [] p = 1 -> Fin(-19)
    [] p = 2 -> Fin(-11)
    [] p = 3 -> Fin(-5)
    [] p = 4 -> Fin(0)
    [] p = 5 -> Fin(5)
    [] p = 6 -> Fin(11)
    [] p = 7 -> Fin(19)
    [] OTHER -> PosInf

\* 1.0f - (1.0 / (1.0 + exp(miss_value))) in eighths, for miss_value in tenths
\* (the logistic function, rounded to the nearest eighth).
ScalingFactor(miss_value) ==
  CASE miss_value >= 29 -> 8
    [] miss_value >= 15 -> 7
    [] miss_value >= 8 -> 6
    [] miss_value >= 3 -> 5
    [] miss_value >= -2 -> 4
    [] miss_value >= -7 -> 3
    [] miss_value >= -14 -> 2
    [] miss_value >= -27 -> 1
    [] OTHER -> 0

\* unobservedOccupancyValue(): +infinity (it is never below a threshold and is
\* excluded from "occupied" by an explicit comparison).
UnobservedValue == PosInf

-----------------------------------------------------------------------------
(***************************************************************************)
(* The NDT voxel kernel, CovarianceVoxel.h.  Arrays are 0-based in the     *)
(* code and 1-based here: element i of the code is element i + 1.          *)
(***************************************************************************)
MaxCount == 3   \* hits are applied while the voxel's sample count is below this

\* initialiseCovariance(cov, sensor_noise)
InitialiseCovariance(sensor_noise) ==
  LET v == FMul(sensor_noise, sensor_noise)
  IN  <<v, 0, v, 0, 0, v>>

\* packedDot(A, j, k)
PackedDot(A, j, k) ==
  LET col_first_el == <<0, 1, 3>>
      indj == col_first_el[j + 1]
      indk == col_first_el[k + 1]
      m == IF j <= k THEN j ELSE k
      term(i) == FMul(A[indj + i + 1], A[indk + i + 1])
  IN  FMul(A[6 + k + 1], A[6 + j + 1])
        + term(0) + (IF m >= 1 THEN term(1) ELSE 0) + (IF m >= 2 THEN term(2) ELSE 0)

\* unpackCovariance(cov, point_count, sample_to_mean, matrix)
UnpackCovariance(cov, point_count, sample_to_mean) ==
  LET one_on_num_pt_plus_one == FDiv(One, point_count * One + One)
      sc_1 == IF point_count # 0 THEN FSqrt(point_count * one_on_num_pt_plus_one) ELSE One
      sc_2 == FMul(one_on_num_pt_plus_one, FSqrt(point_count * One))
  IN  [i \in 1..9 |-> IF i <= 6 THEN FMul(sc_1, cov[i])
                      ELSE FMul(sc_2, sample_to_mean[i - 6])]

\* for (l = 0; l <= k; ++l) unpacked_covariance[indj + l] -= c * unpacked_covariance[indk + l]
RECURSIVE ReduceColumn(_, _, _, _, _, _)
ReduceColumn(A, c, indj, indk, l, k) ==
  IF l > k THEN A
  ELSE ReduceColumn([A EXCEPT ![indj + l + 1] = @ - FMul(c, A[indk + l + 1])],
                    c, indj, indk, l + 1, k)

\* for (j = k + 1; j < 3; ++j) { ... } of the covariance update
RECURSIVE UpdateRow(_, _, _, _)
UpdateRow(st, k, j, aki) ==
  IF j >= 3 THEN st
  ELSE LET indk  == ((k * (k + 3)) \div 2) - k
           indj  == (j * (j + 1)) \div 2
           indkj == indj + k
           c     == FMul(PackedDot(st.A, j, k), aki)
           c2    == FMul(c, aki)
           A1    == [st.A EXCEPT ![j + 6 + 1] = @ - FMul(c2, st.A[k + 6 + 1])]
           A2    == ReduceColumn(A1, c2, indj, indk, 0, k)
       IN  UpdateRow([A |-> A2, cov |-> [st.cov EXCEPT ![indkj + 1] = c]], k, j + 1, aki)

\* for (k = 0; k < 3; ++k) { ... } of the covariance update
RECURSIVE UpdateCovariance(_, _)
UpdateCovariance(st, k) ==
  IF k >= 3 THEN st
  ELSE LET ind1 == (k * (k + 3)) \div 2
           ak   == FSqrt(PackedDot(st.A, k, k))
           st1  == [st EXCEPT !.cov[ind1 + 1] = ak]
       IN  UpdateCovariance(IF ak > 0 THEN UpdateRow(st1, k, k + 1, FDiv(One, ak)) ELSE st1,
                            k + 1)

\* The re-initialisation test with the sample count test applied to every
\* trigger (the && taken to bind the whole disjunction).
Reinitialise_CountGuardsAll(initial_value, point_count, uninitialised_value, reinitialise_threshold, reinitialise_sample_count) ==
  /\ \/ FEq(initial_value, uninitialised_value)
     \/ point_count = 0
     \/ FLt(initial_value, reinitialise_threshold)
  /\ point_count >= reinitialise_sample_count

\* The re-initialisation test of calculateHitWithCovariance.
Reinitialise(initial_value, point_count, uninitialised_value, reinitialise_threshold, reinitialise_sample_count) ==
  \/ FEq(initial_value, uninitialised_value)
  \/ point_count = 0
  \/ (FLt(initial_value, reinitialise_threshold) /\ point_count >= reinitialise_sample_count)

\* The hit value update adding hit_value to the accumulated value on a
\* re-initialisation too (only an unobserved voxel starts from hit_value).
HitValue_Accumulate(initialised_covariance, voxel_value, hit_value, uninitialised_value) ==
  IF FEq(voxel_value, uninitialised_value) THEN hit_value ELSE FAdd(voxel_value, hit_value)

\* The voxel value after a hit: *voxel_value = hit_value on a
\* re-initialisation, *voxel_value += hit_value otherwise.
HitValue(initialised_covariance, voxel_value, hit_value, uninitialised_value) ==
  IF initialised_covariance THEN hit_value ELSE FAdd(voxel_value, hit_value)

\* calculateHitWithCovariance(): the new covariance, the new voxel value and
\* the returned flag.
CalculateHitWithCovariance(cov_voxel, voxel_value, sample, voxel_mean, point_count, hit_value, uninitialised_value, sensor_noise, reinitialise_threshold, reinitialise_sample_count) ==
  LET initialised_covariance ==
        Reinitialise(voxel_value, point_count, uninitialised_value,
                     reinitialise_threshold, reinitialise_sample_count)
      cov0 == IF initialised_covariance THEN InitialiseCovariance(sensor_noise) ELSE cov_voxel
      value == HitValue(initialised_covariance, voxel_value, hit_value, uninitialised_value)
      sample_to_mean == [i \in 1..3 |-> sample[i] - voxel_mean[i]]
      unpacked == UnpackCovariance(cov0, point_count, sample_to_mean)
      updated == UpdateCovariance([A |-> unpacked, cov |-> cov0], 0)
  IN  [cov |-> updated.cov, value |-> value, initialised_covariance |-> initialised_covariance]

\* The standard miss with the adjustment subtracted instead of added.
StandardMiss_Subtract(voxel_value, miss_value) == FAdd(voxel_value, Fin(-miss_value))

\* The standard miss of calculateMissNdt: *voxel_value += miss_value.
StandardMiss(voxel_value, miss_value) == FAdd(voxel_value, Fin(miss_value))

\* calculateMissNdt().  The two Gaussian likelihoods the code computes from
\* the ray, the voxel mean and the covariance (p_x_ml_given_voxel,
\* p_x_ml_given_sample) are inputs here: a probability in eighths, or NaN
\* (a zero length ray, a division by zero in solveTriangular).  The result is
\* the new voxel value, the branch taken and the log-odds adjustment computed.
CalculateMissNdt(voxel_value, point_count, uninitialised_value, miss_value, sample_threshold, p_x_ml_given_voxel, p_x_ml_given_sample) ==
  IF FEq(voxel_value, uninitialised_value)
    THEN [value |-> Fin(miss_value), path |-> "first_touch", adjustment |-> Fin(miss_value)]
  ELSE IF point_count < sample_threshold
    THEN [value |-> StandardMiss(voxel_value, miss_value), path |-> "standard",
          adjustment |-> Fin(miss_value)]
  ELSE
    LET scaling_factor == ScalingFactor(miss_value)
        probability_update ==
          IF IsNaN(p_x_ml_given_voxel) \/ IsNaN(p_x_ml_given_sample) THEN NaN
          ELSE Fin(ProbHalf - CDiv(scaling_factor * p_x_ml_given_voxel[2]
                                     * (ProbOne - p_x_ml_given_sample[2]),
                                   ProbOne * ProbOne))
    IN  IF FEq(probability_update, probability_update)
          THEN [value |-> FAdd(voxel_value, LogOdds(probability_update[2])),
                path |-> "ndt", adjustment |-> LogOdds(probability_update[2])]
          ELSE [value |-> voxel_value, path |-> "ndt", adjustment |-> NaN]

\* The voxel mean and sample count after a hit: restarted from the sample when
\* the kernel reports a re-initialisation, else the running mean.
UpdateMean(voxel_mean, point_count, sample, restart) ==
  IF restart
    THEN [mean |-> sample, count |-> 1]
    ELSE [mean |-> [i \in 1..3 |-> voxel_mean[i] + CDiv(sample[i] - voxel_mean[i], point_count + 1)],
          count |-> point_count + 1]

\* The saturation the ray mapper applies to the kernel's result:
\* v := min(v, max_value) after a hit, v := max(v, min_value) after a miss.
SaturateHit(value, max_voxel_value) == StdMin(value, Fin(max_voxel_value))
SaturateMiss(value, min_voxel_value) == StdMax(value, Fin(min_voxel_value))

\* The settings explored.  Values are in tenths of a log-odds unit, the sensor
\* noise in 1/4096.
NdtConfigs ==
  [hit_value : {8}, miss_value : {-4, 0},
   min_voxel_value : {-20}, max_voxel_value : {20},
   occupancy_threshold_value : {0},
   sensor_noise : {2048},
   reinitialise_threshold : {-14}, reinitialise_sample_count : {2},
   sample_threshold : {1}]

\* Sample positions of the hits, relative to the voxel centre.
Samples == { <<0, 0, 0>>, <<1024, 512, 0>> }

\* The likelihood inputs of a miss.
VoxelLikelihoods == { NaN, Fin(0), Fin(ProbHalf), Fin(ProbOne) }
SampleLikelihoods == { NaN, Fin(0), Fin(ProbOne) }

NoNdtOp ==
  [kind |-> "none", path |-> "none", value_before |-> UnobservedValue, count_before |-> 0,
   kernel_value |-> UnobservedValue, adjustment |-> Fin(0), reinitialised |-> FALSE,
   misses |-> 0, hits |-> 0, misses_then_hits |-> TRUE]

InitNdtVars ==
  /\ ndt_cfg \in NdtConfigs
  /\ voxel = [value |-> UnobservedValue, cov |-> <<0, 0, 0, 0, 0, 0>>,
              mean |-> <<0, 0, 0>>, count |-> 0]
  /\ ndt_last = NoNdtOp

\* Counters of the run so far, kept while it is "misses, then hits": they
\* stop at MaxCount + 1.
CountUp(n) == IF n > MaxCount THEN n ELSE n + 1

\* A sample falls in the voxel: calculateHitWithCovariance(), then the mean
\* and count update and the saturation of the value.
IntegrateHit(sample) ==
  LET r == CalculateHitWithCovariance(voxel.cov, voxel.value, sample, voxel.mean, voxel.count,
                                      Fin(ndt_cfg.hit_value), UnobservedValue,
                                      ndt_cfg.sensor_noise,
                                      Fin(ndt_cfg.reinitialise_threshold),
                                      ndt_cfg.reinitialise_sample_count)
      m == UpdateMean(voxel.mean, voxel.count, sample, r.initialised_covariance)
  IN  /\ voxel.count < MaxCount
      /\ voxel' = [value |-> SaturateHit(r.value, ndt_cfg.max_voxel_value),
                   cov |-> r.cov, mean |-> m.mean, count |-> m.count]
      /\ ndt_last' = [kind |-> "hit",
                      path |-> IF r.initialised_covariance THEN "reinitialise" ELSE "accumulate",
                      value_before |-> voxel.value, count_before |-> voxel.count,
                      kernel_value |-> r.value, adjustment |-> Fin(ndt_cfg.hit_value),
                      reinitialised |-> r.initialised_covariance,
                      misses |-> ndt_last.misses, hits |-> CountUp(ndt_last.hits),
                      misses_then_hits |-> ndt_last.misses_then_hits]
      /\ UNCHANGED ndt_cfg
      /\ UNCHANGED <<keyVars, bufVars, hmVars, mapVars, objVars>>

\* A ray passes through the voxel: calculateMissNdt(), then the saturation.
IntegrateMiss(p_voxel, p_sample) ==
  LET r == CalculateMissNdt(voxel.value, voxel.count, UnobservedValue, ndt_cfg.miss_value,
                            ndt_cfg.sample_threshold, p_voxel, p_sample)
  IN  /\ voxel' = [voxel EXCEPT !.value = SaturateMiss(r.value, ndt_cfg.min_voxel_value)]
      /\ ndt_last' = [kind |-> "miss", path |-> r.path,
                      value_before |-> voxel.value, count_before |-> voxel.count,
                      kernel_value |-> r.value, adjustment |-> r.adjustment,
                      reinitialised |-> FALSE,
                      misses |-> IF ndt_last.hits = 0 THEN CountUp(ndt_last.misses)
                                 ELSE ndt_last.misses,
                      hits |-> ndt_last.hits,
                      misses_then_hits |-> ndt_last.misses_then_hits /\ ndt_last.hits = 0]
      /\ UNCHANGED ndt_cfg
      /\ UNCHANGED <<keyVars, bufVars, hmVars, mapVars, objVars>>

NextNdt ==
  \/ \E sample \in Samples : IntegrateHit(sample)
  \/ \E p_voxel \in VoxelLikelihoods, p_sample \in SampleLikelihoods :
       IntegrateMiss(p_voxel, p_sample)

InitNdt == InitNdtVars /\ IdleKeyVars /\ IdleBufVars /\ IdleHmVars /\ IdleMapVars /\ IdleObjVars

SpecNdt == InitNdt /\ [][NextNdt]_vars

\* Whether a value is the unobserved sentinel or lies in [min_value, max_value].
InValueRange(v) ==
  \/ v = UnobservedValue
  \/ (IsFin(v) /\ v[2] >= ndt_cfg.min_voxel_value /\ v[2] <= ndt_cfg.max_voxel_value)

\* C4 as stated: the value calculateHitWithCovariance or calculateMissNdt
\* leaves in *voxel_value lies in [min_value, max_value] or is the sentinel.
C4_KernelValueInRange ==
  ndt_last.kind \in {"hit", "miss"} => InValueRange(ndt_last.kernel_value)

\* C4 amended: after every hit and miss update, in any sequence, the voxel's
\* stored occupancy value (the kernel's result saturated by the ray mapper)
\* lies in [min_value, max_value] or is the unobserved sentinel.
C4_StoredValueInRange == InValueRange(voxel.value)

\* C4 witness: a hit whose kernel result exceeded max_value and was saturated.
C4_Witness ==
  /\ ndt_last.kind = "hit"
  /\ IsFin(ndt_last.kernel_value)
  /\ ndt_last.kernel_value[2] > ndt_cfg.max_voxel_value
  /\ voxel.value = Fin(ndt_cfg.max_voxel_value)

\* C5: a hit re-initialises the covariance and returns true exactly when the
\* voxel was unobserved, or had no samples, or was below
\* reinitialise_threshold with at least reinitialise_sample_count samples;
\* then the value becomes hit_value, otherwise hit_value is added to it.
C5_ReinitialiseIffTrigger ==
  ndt_last.kind = "hit" =>
    LET before == ndt_last.value_before
        trigger ==
          \/ before = UnobservedValue
          \/ ndt_last.count_before = 0
          \/ /\ IsFin(before)
             /\ before[2] < ndt_cfg.reinitialise_threshold
             /\ ndt_last.count_before >= ndt_cfg.reinitialise_sample_count
    IN  /\ ndt_last.reinitialised <=> trigger
        /\ ndt_last.reinitialised => ndt_last.kernel_value = Fin(ndt_cfg.hit_value)
        /\ ~ndt_last.reinitialised =>
             ndt_last.kernel_value = Fin(before[2] + ndt_cfg.hit_value)

\* C5 witness: a hit on an observed voxel with samples that re-initialised
\* through the threshold trigger.
C5_Witness ==
  /\ ndt_last.kind = "hit"
  /\ ndt_last.reinitialised
  /\ ndt_last.value_before # UnobservedValue
  /\ ndt_last.count_before >= ndt_cfg.reinitialise_sample_count

\* C6: NDT reset. A hit on a voxel with at least reinitialise_sample_count
\* samples and a value below reinitialise_threshold leaves the stored
\* covariance equal to sensor_noise * I and the sample count equal to 1.
C6_ResetToScaledIdentity ==
  ( /\ ndt_last.kind = "hit"
    /\ ndt_last.count_before >= ndt_cfg.reinitialise_sample_count
    /\ IsFin(ndt_last.value_before)
    /\ ndt_last.value_before[2] < ndt_cfg.reinitialise_threshold )
  => /\ voxel.cov = <<ndt_cfg.sensor_noise, 0, ndt_cfg.sensor_noise, 0, 0, ndt_cfg.sensor_noise>>
     /\ voxel.count = 1

\* C7: a miss applies the standard rule (v := miss_value when unobserved, else
\* v := v + miss_value) whenever the voxel has fewer than sample_threshold
\* samples, is unobserved or is free; the NDT adjustment is applied only to
\* occupied voxels with at least sample_threshold samples.
C7_StandardMissRule ==
  ndt_last.kind = "miss" =>
    LET before == ndt_last.value_before
        unobserved == before = UnobservedValue
        free == IsFin(before) /\ before[2] < ndt_cfg.occupancy_threshold_value
        few == ndt_last.count_before < ndt_cfg.sample_threshold
    IN  /\ (few \/ unobserved \/ free) =>
             ndt_last.kernel_value =
               (IF unobserved THEN Fin(ndt_cfg.miss_value)
                ELSE Fin(before[2] + ndt_cfg.miss_value))
        /\ ndt_last.path = "ndt" => (~few /\ ~unobserved /\ ~free)

\* C8: when the NDT miss computation yields a non-finite adjustment (NaN or
\* +-Inf) the update is discarded: the voxel value is what it was before.
C8_NonFiniteDiscarded ==
  ( /\ ndt_last.kind = "miss"
    /\ ndt_last.path = "ndt"
    /\ ~IsFin(ndt_last.adjustment) )
  => ndt_last.kernel_value = ndt_last.value_before

\* min(max(v, min_value), max_value)
Clamp(v) ==
  IF v < ndt_cfg.min_voxel_value THEN ndt_cfg.min_voxel_value
  ELSE IF v > ndt_cfg.max_voxel_value THEN ndt_cfg.max_voxel_value
  ELSE v

\* The voxel has seen exactly k misses followed by exactly k hits, k >= 1.
MissesThenHits ==
  /\ ndt_last.misses_then_hits
  /\ ndt_last.hits >= 1
  /\ ndt_last.hits <= MaxCount
  /\ ndt_last.misses = ndt_last.hits

-----------------------------------------------------------------------------
(***************************************************************************)
(* Heightmap: the search of one column of the source map for a ground      *)
(* voxel (Heightmap.cpp).  The column runs along the vertical axis (z)     *)
(* through the regions HmRegions; heights are in quarter voxels.           *)
(***************************************************************************)
HmRegionDim == 2      \* voxels of a region along the vertical axis
HmRegions == {-1, 0}
Resolutions == {4}
MeanOffsets == {0, 1} \* voxel mean offset of an occupied voxel along the axis
DblMax == 1000000     \* std::numeric_limits<double>::max()

VerticalAxis == 3
\* region_voxel_dimensions of the source map
HmDims == <<1, 1, hm_cfg.region_dim>>

KeyNull == [region |-> <<0, 0, 0>>, local |-> <<255, 255, 255>>]
HmKey(r, l) == [region |-> <<0, 0, r>>, local |-> <<0, 0, l>>]
ColumnKeys == { HmKey(r, l) : r \in HmRegions, l \in 0..(HmRegionDim - 1) }

\* The voxel index of a key along an axis: region * region_dim + local.
VoxelIndex(k, axis, dims) == k.region[axis] * dims[axis] + k.local[axis]

ColumnIndices == { VoxelIndex(k, VerticalAxis, <<1, 1, HmRegionDim>>) : k \in ColumnKeys }

\* Key::isBounded(axis, min_key, max_key)
IsBounded(k, axis, min_key, max_key) ==
  /\ k # KeyNull
  /\ VoxelIndex(k, axis, HmDims) >= VoxelIndex(min_key, axis, HmDims)
  /\ VoxelIndex(k, axis, HmDims) <= VoxelIndex(max_key, axis, HmDims)

\* OccupancyMap::stepKey(key, axis, dir): one voxel along the axis.
StepKey(k, axis, dir) == MoveKeyAlongAxis(k, axis, dir, HmDims)

\* SrcVoxel::occupancyType(): kNull without a chunk, else the voxel's class.
OccupancyType(k) ==
  IF k.region[VerticalAxis] \in DOMAIN column.chunk /\ column.chunk[k.region[VerticalAxis]]
    THEN column.type[VoxelIndex(k, VerticalAxis, HmDims)]
    ELSE "kNull"

\* The up vector's component on the vertical axis.
UpSign == IF hm_cfg.up_axis_id >= 0 THEN 1 ELSE -1

\* OccupancyMap::voxelCentreGlobal(key) on the vertical axis.
VoxelCentre(k) ==
  VoxelIndex(k, VerticalAxis, HmDims) * hm_cfg.resolution + (hm_cfg.resolution \div 2)

\* sourceVoxelHeight(): the voxel mean position of an occupied voxel, the
\* voxel centre of any other, projected on up.
SourceVoxelHeight(k) ==
  IF OccupancyType(k) = "kOccupied"
    THEN UpSign * (VoxelCentre(k) + column.off[VoxelIndex(k, VerticalAxis, HmDims)])
    ELSE UpSign * VoxelCentre(k)

\* The clearance test passing whatever the gap.
SufficientClearance_Always(column_clearance_height, column_height, min_clearance) == TRUE

\* column_clearance_height - column_height >= imp.min_clearance
SufficientClearance(column_clearance_height, column_height, min_clearance) ==
  column_clearance_height - column_height >= min_clearance

\* The body of the findGround loop for the voxel at st.key.
FindGroundVisit(st) ==
  LET voxel_type == OccupancyType(st.key)
      height == SourceVoxelHeight(st.key)
      last_is_unobserved == st.last_voxel_type \in {"kUnobserved", "kNull"}
      candidate == [st EXCEPT !.height = height,
                              !.ground_key = st.key,
                              !.column_height = height,
                              !.column_clearance_height = height,
                              !.candidate_voxel_type = voxel_type,
                              !.last_voxel_type = voxel_type]
  IN  IF \/ voxel_type = "kOccupied"
         \/ /\ hm_cfg.generate_virtual_surface
            /\ last_is_unobserved
            /\ voxel_type = "kFree"
            /\ st.candidate_voxel_type = "kNull"
        THEN IF st.candidate_voxel_type # "kNull"
               THEN IF SufficientClearance(height, st.column_height, hm_cfg.min_clearance)
                      THEN [st EXCEPT !.height = height,
                                      !.column_clearance_height = height,
                                      !.break = TRUE]
                      ELSE candidate
               ELSE candidate
        ELSE [st EXCEPT !.height = height, !.last_voxel_type = voxel_type]

\* for (key = seed_key; key.isBounded(...); stepKey(key, up_axis_index, step_dir))
RECURSIVE FindGroundWalk(_)
FindGroundWalk(st) ==
  IF ~IsBounded(st.key, VerticalAxis, hm_cfg.min_key, hm_cfg.max_key) THEN st
  ELSE The({ IF visited.break THEN visited
             ELSE FindGroundWalk([visited EXCEPT !.key = StepKey(@, VerticalAxis, UpSign)]) :
             visited \in {FindGroundVisit(st)} })

\* findGround(): the ground key, and the height and clearance written when
\* the key is not null.
FindGroundResult(seed_key) ==
  The({ IF st.candidate_voxel_type # "kNull"
          THEN [ground_key |-> st.ground_key, height_out |-> st.height,
                clearance_out |-> st.column_clearance_height - st.column_height]
          ELSE [ground_key |-> KeyNull, height_out |-> 0, clearance_out |-> 0] :
        st \in { FindGroundWalk([key |-> seed_key,
                                 column_height |-> DblMax,
                                 column_clearance_height |-> DblMax,
                                 height |-> 0,
                                 candidate_voxel_type |-> "kNull",
                                 last_voxel_type |-> "kNull",
                                 ground_key |-> KeyNull,
                                 break |-> FALSE]) } })

NoSearch == [done |-> FALSE, seed_key |-> KeyNull, ground_key |-> KeyNull,
             height_out |-> 0, clearance_out |-> 0]

\* The columns explored: each region without a chunk (its voxels then read as
\* unobserved) or with any mix of unobserved, free and occupied voxels.
Columns ==
  { c \in [chunk : [HmRegions -> BOOLEAN],
           type : [ColumnIndices -> {"kUnobserved", "kFree", "kOccupied"}],
           off : [ColumnIndices -> MeanOffsets]] :
      \A i \in ColumnIndices :
        /\ (c.type[i] # "kOccupied" => c.off[i] = 0)
        /\ (\E r \in HmRegions : ~c.chunk[r] /\ i \in (r * HmRegionDim)..(r * HmRegionDim + HmRegionDim - 1))
             => c.type[i] = "kUnobserved" }

\* up axis ids: kZ = 2, kNegZ = -3.  The search extents end at the top of the
\* column or one voxel short of it.
HmConfigs ==
  { c \in [up_axis_id : {2, -3},
           generate_virtual_surface : BOOLEAN,
           resolution : Resolutions,
           region_dim : {HmRegionDim},
           min_clearance : {4, 7},
           min_key : ColumnKeys,
           max_key : ColumnKeys] :
      /\ c.min_key = HmKey(-1, 0)
      /\ c.max_key \in {HmKey(0, HmRegionDim - 1), HmKey(0, HmRegionDim - 2)} }

InitHmVars ==
  /\ hm_cfg \in HmConfigs
  /\ column \in Columns
  /\ hm_last = NoSearch

\* One call of findGround from a seed in the column.
FindGround(seed_key) ==
  LET r == FindGroundResult(seed_key)
  IN  /\ hm_last' = [done |-> TRUE, seed_key |-> seed_key, ground_key |-> r.ground_key,
                     height_out |-> r.height_out, clearance_out |-> r.clearance_out]
      /\ UNCHANGED <<hm_cfg, column>>
      /\ UNCHANGED <<keyVars, bufVars, ndtVars, mapVars, objVars>>

NextHm == \E seed_key \in ColumnKeys : FindGround(seed_key)

InitHm == InitHmVars /\ IdleKeyVars /\ IdleBufVars /\ IdleNdtVars /\ IdleMapVars /\ IdleObjVars

SpecHm == InitHm /\ [][NextHm]_vars

\* The occupied voxels inside the search extents strictly above index g in
\* the up direction.
OccupiedAbove(g) ==
  { i \in ColumnIndices :
      /\ i >= VoxelIndex(hm_cfg.min_key, VerticalAxis, HmDims)
      /\ i <= VoxelIndex(hm_cfg.max_key, VerticalAxis, HmDims)
      /\ (IF hm_cfg.up_axis_id >= 0 THEN i > g ELSE i < g)
      /\ column.chunk[IF i < 0 THEN -1 ELSE 0]
      /\ column.type[i] = "kOccupied" }

\* The height of the voxel at index i: mean position when occupied, centre
\* otherwise, along up.
HeightAt(i) ==
  LET centre == i * hm_cfg.resolution + (hm_cfg.resolution \div 2)
      pos == IF column.chunk[IF i < 0 THEN -1 ELSE 0] /\ column.type[i] = "kOccupied"
               THEN centre + column.off[i] ELSE centre
  IN  IF hm_cfg.up_axis_id >= 0 THEN pos ELSE -pos

\* C10: for a ground voxel g returned by findGround, no occupied voxel above
\* g inside the search extents is closer than min_clearance, and when there
\* is an occupied voxel above g the emitted clearance equals the gap between
\* g and the first of them.
C10_GroundClearance ==
  (hm_last.done /\ hm_last.ground_key # KeyNull) =>
    LET g == VoxelIndex(hm_last.ground_key, VerticalAxis, HmDims)
        above == OccupiedAbove(g)
    IN  /\ \A i \in above : HeightAt(i) - HeightAt(g) >= hm_cfg.min_clearance
        /\ above # {} =>
             \E first \in above :
               /\ \A i \in above : HeightAt(first) <= HeightAt(i)
               /\ hm_last.clearance_out = HeightAt(first) - HeightAt(g)

\* C10 witness: a ground voxel above the seed (a lower candidate was given up
\* for want of clearance) returned with an occupied voxel above it.
C10_Witness ==
  /\ hm_last.done
  /\ hm_last.ground_key # KeyNull
  /\ hm_last.ground_key # hm_last.seed_key
  /\ OccupancyType(hm_last.seed_key) = "kOccupied"
  /\ OccupiedAbove(VoxelIndex(hm_last.ground_key, VerticalAxis, HmDims)) # {}
  /\ hm_last.clearance_out >= hm_cfg.min_clearance

-----------------------------------------------------------------------------
(***************************************************************************)
(* Heightmap: the evaluation of one column by buildHeightmapT: the search  *)
(* for a supporting voxel below and above the walk key, the ground search  *)
(* from the selected candidate and the write of the heightmap cell.        *)
(***************************************************************************)
ColRegionDim == 4     \* voxels of a region along the vertical axis
ObservedCounts == 0..3   \* observed (free or occupied) voxels in a column
ColRegions == {-1, 0}

kHeightmapSurfaceValue == 1
kHeightmapVirtualSurfaceValue == -1

Abs(n) == IF n < 0 THEN -n ELSE n

\* OccupancyMap::rangeBetween(from, to)[axis]: the signed voxel delta.
RangeBetween(from_key, to_key, axis) ==
  VoxelIndex(to_key, axis, HmDims) - VoxelIndex(from_key, axis, HmDims)

\* One pass of the findNearestSupportingVoxel2 loop for the voxel at
\* st.current_key (i is st.i); st.reach collects the voxels examined or
\* skipped with their chunk.
SupportingVoxelVisit(st, step, search_up, allow_virtual_surface) ==
  LET type == OccupancyType(st.current_key)
      has_chunk == type # "kNull"
      occupied == type = "kOccupied"
      free == type = "kFree"
      offset == st.i + (IF search_up THEN 1 ELSE 0)
      index == VoxelIndex(st.current_key, VerticalAxis, HmDims)
      best_up == IF allow_virtual_surface /\ search_up /\ free /\ st.last_unknown
                    /\ st.best_virtual = KeyNull
                   THEN st.current_key ELSE st.best_virtual
      best_down == IF allow_virtual_surface /\ ~search_up /\ st.last_free /\ ~free
                     THEN st.last_key ELSE best_up
      local == st.current_key.local[VerticalAxis]
      next_step == IF has_chunk THEN step
                   ELSE IF step > 0 THEN HmDims[VerticalAxis] - local
                   ELSE -(1 + local)
      skipped == { index + step * n : n \in 0..(Abs(next_step) - 1) }
  IN  IF occupied
        THEN [st EXCEPT !.offset = offset, !.found = TRUE,
                        !.visited = @ \cup {index}, !.reach = @ \cup {index}]
        ELSE [st EXCEPT !.offset = offset,
                        !.best_virtual = best_down,
                        !.last_unknown = ~occupied /\ ~free,
                        !.last_free = free,
                        !.last_key = st.current_key,
                        !.i = st.i + Abs(next_step),
                        !.current_key = MoveKeyAlongAxis(@, VerticalAxis, next_step, HmDims),
                        !.visited = @ \cup {index},
                        !.reach = @ \cup skipped]

\* for (int i = 0; i < vertical_range; ++i) { ... }
RECURSIVE SupportingVoxelLoop(_, _, _, _, _)
SupportingVoxelLoop(st, vertical_range, step, search_up, allow_virtual_surface) ==
  IF st.found \/ st.i >= vertical_range THEN st
  ELSE The({ SupportingVoxelLoop(next, vertical_range, step, search_up, allow_virtual_surface) :
             next \in {SupportingVoxelVisit(st, step, search_up, allow_virtual_surface)} })

\* findNearestSupportingVoxel2(): the key returned, *offset (offset_in where
\* the function does not write it) and *is_virtual.
FindNearestSupportingVoxel2(from_key, to_key, step_limit, search_up, allow_virtual_surface, offset_in) ==
  LET signed_range == RangeBetween(from_key, to_key, VerticalAxis) + 1
      step == IF signed_range >= 0 THEN 1 ELSE -1
      abs_range == Abs(signed_range)
      vertical_range == IF step_limit > 0 /\ step_limit < abs_range THEN step_limit ELSE abs_range
  IN  The({ LET take_last == allow_virtual_surface /\ ~search_up /\ st.last_free
                best_virtual == IF st.best_virtual = KeyNull /\ take_last THEN st.last_key
                                ELSE st.best_virtual
                offset == IF st.best_virtual = KeyNull /\ ~take_last THEN -1 ELSE st.offset
            IN  IF st.found
                  THEN [key |-> st.current_key, offset |-> st.offset, is_virtual |-> FALSE,
                        visited |-> st.visited, reach |-> st.reach]
                  ELSE [key |-> best_virtual, offset |-> offset,
                        is_virtual |-> best_virtual # KeyNull,
                        visited |-> st.visited, reach |-> st.reach] :
            st \in { SupportingVoxelLoop([i |-> 0, current_key |-> from_key, last_key |-> KeyNull,
                                          best_virtual |-> KeyNull, last_unknown |-> TRUE,
                                          last_free |-> TRUE, offset |-> offset_in, found |-> FALSE,
                                          visited |-> {}, reach |-> {}],
                                         vertical_range, step, search_up, allow_virtual_surface) } })

\* The selection of findNearestSupportingVoxel without the preference of a
\* real candidate above over a virtual one below.
SelectSupportingVoxel_NoRealAbove(below, above, promote_virtual_below, clearance_voxel_count_permissive) ==
  LET have_candidate_below == below.offset >= 0
      have_candidate_above == above.offset >= 0
      virtual_above == above.is_virtual
      virtual_below == have_candidate_below /\ below.is_virtual /\ ~promote_virtual_below
  IN  IF have_candidate_below /\ virtual_above /\ ~virtual_below THEN below.key
      ELSE IF have_candidate_below /\ virtual_above /\ virtual_below THEN below.key
      ELSE IF have_candidate_below /\
                ( \/ ~have_candidate_above
                  \/ below.offset <= above.offset
                  \/ /\ have_candidate_below /\ have_candidate_above /\ ~virtual_above
                     /\ below.offset + above.offset >= clearance_voxel_count_permissive )
        THEN below.key
      ELSE above.key

\* The selection between the candidates below and above of
\* findNearestSupportingVoxel.
SelectSupportingVoxel(below, above, promote_virtual_below, clearance_voxel_count_permissive) ==
  LET have_candidate_below == below.offset >= 0
      have_candidate_above == above.offset >= 0
      virtual_above == above.is_virtual
      virtual_below == have_candidate_below /\ below.is_virtual /\ ~promote_virtual_below
  IN  IF have_candidate_below /\ virtual_above /\ ~virtual_below THEN below.key
      ELSE IF have_candidate_above /\ ~virtual_above /\ virtual_below THEN above.key
      ELSE IF have_candidate_below /\ virtual_above /\ virtual_below THEN below.key
      ELSE IF have_candidate_below /\
                ( \/ ~have_candidate_above
                  \/ below.offset <= above.offset
                  \/ /\ have_candidate_below /\ have_candidate_above /\ ~virtual_above
                     /\ below.offset + above.offset >= clearance_voxel_count_permissive )
        THEN below.key
      ELSE above.key

\* findNearestSupportingVoxel(): the two searches from seed_key and the key
\* selected.
FindNearestSupportingVoxel(seed_key) ==
  LET positive == hm_cfg.up_axis_id >= 0
      search_down_to == IF positive THEN hm_cfg.min_key ELSE hm_cfg.max_key
      search_up_to == IF positive THEN hm_cfg.max_key ELSE hm_cfg.min_key
  IN  The({ [below |-> below, above |-> above,
             key |-> SelectSupportingVoxel(below, above, hm_cfg.promote_virtual_below,
                                           hm_cfg.clearance_voxel_count_permissive)] :
            below \in { FindNearestSupportingVoxel2(seed_key, search_down_to, 0, FALSE,
                                                    hm_cfg.generate_virtual_surface, -1) },
            above \in { FindNearestSupportingVoxel2(seed_key, search_up_to, hm_cfg.voxel_ceiling,
                                                    TRUE, hm_cfg.generate_virtual_surface, -1) } })

\* The test for writing a cell whatever the voxel is.
EmitsSurface_Always(voxel_type, generate_virtual_surface) == TRUE

\* if (voxel_type == kOccupied || imp_->generate_virtual_surface)
EmitsSurface(voxel_type, generate_virtual_surface) ==
  voxel_type = "kOccupied" \/ generate_virtual_surface

\* ohm::pointToRegionCoord(coord, resolution) for a non-negative coordinate.
PointToRegionCoord(coord, resolution) == (2 * coord + resolution) \div (2 * resolution)

\* The heightmap cell one pass of the buildHeightmapT loop writes for the
\* column of walk_key, with the candidates it went through.
BuildColumn(walk_key) ==
  The({ LET candidate_key == support.key
            found == IF candidate_key # KeyNull THEN FindGroundResult(candidate_key)
                     ELSE [ground_key |-> walk_key, height_out |-> 0, clearance_out |-> 0]
        IN  The({ LET voxel_type == OccupancyType(ground.ground_key)
                      written == /\ EmitsSurface(voxel_type, hm_cfg.generate_virtual_surface)
                                 /\ voxel_type # "kUnobserved"
                                 /\ voxel_type # "kNull"
                  IN  [done |-> TRUE, walk_key |-> walk_key,
                       below |-> support.below, above |-> support.above,
                       candidate_key |-> candidate_key, ground_key |-> ground.ground_key,
                       written |-> written,
                       surface_value |-> IF voxel_type = "kOccupied" THEN kHeightmapSurfaceValue
                                         ELSE kHeightmapVirtualSurfaceValue,
                       clearance |-> ground.clearance_out] :
                  ground \in {found} }) :
        support \in {FindNearestSupportingVoxel(walk_key)} })

NoColumn == [done |-> FALSE]

ColKeys == { HmKey(r, l) : r \in ColRegions, l \in 0..(ColRegionDim - 1) }
ColIndices == { VoxelIndex(k, VerticalAxis, <<1, 1, ColRegionDim>>) : k \in ColKeys }

\* The columns explored: each region without a chunk or with unobserved,
\* free and occupied voxels, ObservedCounts of them observed (no voxel
\* mean offsets).
ColColumns ==
  { c \in [chunk : [ColRegions -> BOOLEAN],
           type : [ColIndices -> {"kUnobserved", "kFree", "kOccupied"}],
           off : [ColIndices -> {0}]] :
      /\ \A i \in ColIndices :
           (\E r \in ColRegions : ~c.chunk[r] /\ i \in (r * ColRegionDim)..(r * ColRegionDim + ColRegionDim - 1))
             => c.type[i] = "kUnobserved"
      /\ Cardinality({ i \in ColIndices : c.type[i] # "kUnobserved" }) \in ObservedCounts }

\* The search extents are the whole column; the ceiling is unlimited (0) or
\* two voxels; min_clearance is one or seven voxels.
ColConfigs ==
  { c \in [up_axis_id : {2, -3},
           generate_virtual_surface : BOOLEAN,
           promote_virtual_below : BOOLEAN,
           resolution : Resolutions,
           region_dim : {ColRegionDim},
           min_clearance : {4, 28},
           voxel_ceiling : {0, 2},
           clearance_voxel_count_permissive : 1..8,
           min_key : ColKeys,
           max_key : ColKeys] :
      /\ c.promote_virtual_below => c.generate_virtual_surface
      /\ c.clearance_voxel_count_permissive =
           (IF PointToRegionCoord(c.min_clearance, c.resolution) - 1 > 1
              THEN PointToRegionCoord(c.min_clearance, c.resolution) - 1 ELSE 1)
      /\ c.min_key = HmKey(-1, 0)
      /\ c.max_key = HmKey(0, ColRegionDim - 1) }

InitColVars ==
  /\ hm_cfg \in ColConfigs
  /\ column \in ColColumns
  /\ hm_last = NoColumn

\* One pass of the buildHeightmapT loop, for a walk key inside the extents;
\* the walker visits the column once.
BuildHeightmapColumn(walk_key) ==
  /\ ~hm_last.done
  /\ hm_last' = BuildColumn(walk_key)
  /\ UNCHANGED <<hm_cfg, column>>
  /\ UNCHANGED <<keyVars, bufVars, ndtVars, mapVars, objVars>>

NextCol == \E walk_key \in ColKeys : BuildHeightmapColumn(walk_key)

InitCol == InitColVars /\ IdleKeyVars /\ IdleBufVars /\ IdleNdtVars /\ IdleMapVars /\ IdleObjVars

SpecCol == InitCol /\ [][NextCol]_vars

\* The class of the source voxel at index i of the column.
TypeAt(i) ==
  IF i \in DOMAIN column.type /\ column.chunk[IF i < 0 THEN -1 ELSE 0]
    THEN column.type[i] ELSE "kNull"

ExtentIndices ==
  VoxelIndex(hm_cfg.min_key, VerticalAxis, HmDims)..VoxelIndex(hm_cfg.max_key, VerticalAxis, HmDims)

\* One pass of the search loop that always moves a single voxel: the voxel is
\* classed and the candidates updated as in findNearestSupportingVoxel2 (a
\* voxel of a missing chunk reads as unobserved), without the skip.
SingleStepVisit(st, step, search_up, allow_virtual_surface) ==
  The({ IF visit.found THEN visit
        ELSE [visit EXCEPT !.i = st.i + 1,
                           !.current_key = MoveKeyAlongAxis(st.current_key, VerticalAxis, step, HmDims)] :
        visit \in {SupportingVoxelVisit(st, step, search_up, allow_virtual_surface)} })

RECURSIVE SingleStepLoop(_, _, _, _, _)
SingleStepLoop(st, vertical_range, step, search_up, allow_virtual_surface) ==
  IF st.found \/ st.i >= vertical_range THEN st
  ELSE The({ SingleStepLoop(next, vertical_range, step, search_up, allow_virtual_surface) :
             next \in {SingleStepVisit(st, step, search_up, allow_virtual_surface)} })

\* The search of findNearestSupportingVoxel2 visiting every voxel of the
\* range: key, offset and is_virtual.
SingleStepSearch(from_key, to_key, step_limit, search_up, allow_virtual_surface, offset_in) ==
  LET signed_range == RangeBetween(from_key, to_key, VerticalAxis) + 1
      step == IF signed_range >= 0 THEN 1 ELSE -1
      abs_range == Abs(signed_range)
      vertical_range == IF step_limit > 0 /\ step_limit < abs_range THEN step_limit ELSE abs_range
  IN  The({ LET take_last == allow_virtual_surface /\ ~search_up /\ st.last_free
                best_virtual == IF st.best_virtual = KeyNull /\ take_last THEN st.last_key
                                ELSE st.best_virtual
                offset == IF st.best_virtual = KeyNull /\ ~take_last THEN -1 ELSE st.offset
            IN  IF st.found
                  THEN [key |-> st.current_key, offset |-> st.offset, is_virtual |-> FALSE]
                  ELSE [key |-> best_virtual, offset |-> offset,
                        is_virtual |-> best_virtual # KeyNull] :
            st \in { SingleStepLoop([i |-> 0, current_key |-> from_key, last_key |-> KeyNull,
                                     best_virtual |-> KeyNull, last_unknown |-> TRUE,
                                     last_free |-> TRUE, offset |-> offset_in, found |-> FALSE,
                                     visited |-> {}, reach |-> {}],
                                    vertical_range, step, search_up, allow_virtual_surface) } })

\* The result of a search reduced to what the caller sees.
Observed(result) == [key |-> result.key, offset |-> result.offset, is_virtual |-> result.is_virtual]

\* The ends of the two searches of findNearestSupportingVoxel.
SearchDownTo == IF hm_cfg.up_axis_id >= 0 THEN hm_cfg.min_key ELSE hm_cfg.max_key
SearchUpTo == IF hm_cfg.up_axis_id >= 0 THEN hm_cfg.max_key ELSE hm_cfg.min_key

\* C29: the skip over the voxels of a region without chunk does not change
\* what findNearestSupportingVoxel2 returns: for every column, direction and
\* step limit the key, is_virtual and offset are those of the search that
\* visits every voxel.
C29_SkipEquivalent ==
  hm_last.done =>
    /\ Observed(hm_last.below) =
         SingleStepSearch(hm_last.walk_key, SearchDownTo, 0, FALSE, hm_cfg.generate_virtual_surface, -1)
    /\ Observed(hm_last.above) =
         SingleStepSearch(hm_last.walk_key, SearchUpTo, hm_cfg.voxel_ceiling, TRUE,
                          hm_cfg.generate_virtual_surface, -1)

\* The key and is_virtual parts of C29.
C29_SkipSameKey ==
  hm_last.done =>
    LET down == SingleStepSearch(hm_last.walk_key, SearchDownTo, 0, FALSE, hm_cfg.generate_virtual_surface, -1)
        up == SingleStepSearch(hm_last.walk_key, SearchUpTo, hm_cfg.voxel_ceiling, TRUE,
                               hm_cfg.generate_virtual_surface, -1)
    IN  /\ hm_last.below.key = down.key /\ hm_last.below.is_virtual = down.is_virtual
        /\ hm_last.above.key = up.key /\ hm_last.above.is_virtual = up.is_virtual

\* C11: with generate_virtual_surface disabled neither search reports a
\* virtual candidate, a cell written has the surface value +1 and comes from
\* an occupied source voxel, and a column without an occupied voxel inside
\* the extents gets no cell.
C11_NoVirtualSurfaceWhenDisabled ==
  (hm_last.done /\ ~hm_cfg.generate_virtual_surface) =>
    /\ ~hm_last.below.is_virtual
    /\ ~hm_last.above.is_virtual
    /\ hm_last.written =>
         /\ hm_last.surface_value = kHeightmapSurfaceValue
         /\ hm_last.ground_key # KeyNull
         /\ TypeAt(VoxelIndex(hm_last.ground_key, VerticalAxis, HmDims)) = "kOccupied"
    /\ (\A i \in ExtentIndices : TypeAt(i) # "kOccupied") => ~hm_last.written

\* C11 witness: virtual surfaces disabled, the walk key on a free voxel with
\* an unobserved voxel below it, and a cell written from an occupied voxel.
C11_Witness ==
  /\ hm_last.done
  /\ ~hm_cfg.generate_virtual_surface
  /\ hm_last.written
  /\ TypeAt(VoxelIndex(hm_last.walk_key, VerticalAxis, HmDims)) = "kFree"
  /\ TypeAt(VoxelIndex(hm_last.walk_key, VerticalAxis, HmDims)
            - (IF hm_cfg.up_axis_id >= 0 THEN 1 ELSE -1)) = "kUnobserved"

\* The class of the neighbour directly below index i (against up).
TypeBelow(i) == TypeAt(i - (IF hm_cfg.up_axis_id >= 0 THEN 1 ELSE -1))

\* C12: a cell written with the virtual surface value comes from a free
\* source voxel whose neighbour directly below is unobserved (no chunk
\* counts as unobserved); no other free voxel is emitted as a virtual
\* surface.
C12_VirtualSurfaceAboveUnobserved ==
  (hm_last.done /\ hm_last.written /\ hm_last.surface_value = kHeightmapVirtualSurfaceValue) =>
    /\ hm_last.ground_key # KeyNull
    /\ TypeAt(VoxelIndex(hm_last.ground_key, VerticalAxis, HmDims)) = "kFree"
    /\ TypeBelow(VoxelIndex(hm_last.ground_key, VerticalAxis, HmDims)) \in {"kUnobserved", "kNull"}

\* The indices from the walk key down (against up) to the lower extent key.
DownRange ==
  LET w == VoxelIndex(hm_last.walk_key, VerticalAxis, HmDims)
  IN  IF hm_cfg.up_axis_id >= 0
        THEN VoxelIndex(hm_cfg.min_key, VerticalAxis, HmDims)..w
        ELSE w..VoxelIndex(hm_cfg.max_key, VerticalAxis, HmDims)

\* C13: the downward search (step_limit 0), unless it ends at an occupied
\* voxel, covers the seed and every voxel below it down to and including the
\* lower extent key, for either sign of the up axis; the upward search
\* examines at most voxel_ceiling voxels when a ceiling is set.
C13_SearchCoversRange ==
  hm_last.done =>
    /\ (hm_last.below.key = KeyNull \/ hm_last.below.is_virtual) =>
         \A i \in DownRange : i \in hm_last.below.reach
    /\ hm_cfg.voxel_ceiling > 0 =>
         Cardinality(hm_last.above.visited) <= hm_cfg.voxel_ceiling

\* Whether a search result is a candidate, a real (occupied) or a virtual one.
HaveCandidate(c) == c.key # KeyNull
RealCandidate(c) == c.key # KeyNull /\ ~c.is_virtual
VirtualCandidate(c) == c.key # KeyNull /\ c.is_virtual

\* C14: with promote_virtual_below false the key findNearestSupportingVoxel
\* selects is the real candidate when the other is virtual, the lower one
\* when both are virtual, and when both are real the lower one unless the
\* upper is within clearance_voxel_count_permissive (offsets summing to less
\* than it), in which case the one with the smaller offset (the lower on a
\* tie); a single candidate is selected as is, and the key is null only when
\* neither search found a candidate.
C14_CandidateSelection ==
  (hm_last.done /\ ~hm_cfg.promote_virtual_below) =>
    LET below == hm_last.below
        above == hm_last.above
        selected == hm_last.candidate_key
    IN  /\ (RealCandidate(below) /\ VirtualCandidate(above)) => selected = below.key
        /\ (VirtualCandidate(below) /\ RealCandidate(above)) => selected = above.key
        /\ (VirtualCandidate(below) /\ VirtualCandidate(above)) => selected = below.key
        /\ (RealCandidate(below) /\ RealCandidate(above)) =>
             selected =
               (IF below.offset + above.offset < hm_cfg.clearance_voxel_count_permissive
                     /\ above.offset < below.offset
                  THEN above.key ELSE below.key)
        /\ (HaveCandidate(below) /\ ~HaveCandidate(above)) => selected = below.key
        /\ (~HaveCandidate(below) /\ HaveCandidate(above)) => selected = above.key
        /\ selected = KeyNull <=> (~HaveCandidate(below) /\ ~HaveCandidate(above))

\* C14 witness: two real candidates, the upper within the permissive
\* clearance and nearer than the lower, and the upper one selected.
C14_Witness ==
  /\ hm_last.done
  /\ ~hm_cfg.promote_virtual_below
  /\ RealCandidate(hm_last.below)
  /\ RealCandidate(hm_last.above)
  /\ hm_last.above.offset < hm_last.below.offset
  /\ hm_last.candidate_key = hm_last.above.key
  /\ hm_last.above.key # hm_last.below.key

\* C15: with promote_virtual_below set, a virtual candidate found below is
\* selected over a real candidate found above whatever the two offsets are.
C15_PromotedVirtualBelowPreferred ==
  ( /\ hm_last.done
    /\ hm_cfg.promote_virtual_below
    /\ VirtualCandidate(hm_last.below)
    /\ RealCandidate(hm_last.above) )
    => hm_last.candidate_key = hm_last.below.key

\* The offset the documentation of findNearestSupportingVoxel2 gives for a
\* result found from from_key: the voxels between the two keys, one more for
\* an upward search.
ExpectedOffset(from_key, result_key, search_up) ==
  Abs(VoxelIndex(result_key, VerticalAxis, HmDims) - VoxelIndex(from_key, VerticalAxis, HmDims))
    + (IF search_up THEN 1 ELSE 0)

\* C16: each search of findNearestSupportingVoxel2 reports as offset the number
\* of voxels between from_key and the voxel it returns (one more when
\* searching up), whether the result is occupied or a virtual surface, and
\* reports a null key with offset -1 when it finds nothing.
C16_OffsetIsDistance ==
  hm_last.done =>
    /\ IF hm_last.below.key = KeyNull THEN hm_last.below.offset = -1
       ELSE hm_last.below.offset = ExpectedOffset(hm_last.walk_key, hm_last.below.key, FALSE)
    /\ IF hm_last.above.key = KeyNull THEN hm_last.above.offset = -1
       ELSE hm_last.above.offset = ExpectedOffset(hm_last.walk_key, hm_last.above.key, TRUE)

\* C16 for occupied results alone.
C16_OffsetIsDistanceReal ==
  hm_last.done =>
    /\ RealCandidate(hm_last.below)
         => hm_last.below.offset = ExpectedOffset(hm_last.walk_key, hm_last.below.key, FALSE)
    /\ RealCandidate(hm_last.above)
         => hm_last.above.offset = ExpectedOffset(hm_last.walk_key, hm_last.above.key, TRUE)
    /\ hm_last.below.key = KeyNull => hm_last.below.offset = -1
    /\ hm_last.above.key = KeyNull => hm_last.above.offset = -1

-----------------------------------------------------------------------------
(***************************************************************************)
(* The map detail (stamp and chunk multimap) and the version 0 map load.   *)
(* v0::load runs one step at a time so that a signal can arrive between    *)
(* any two of its steps: the loop test, the two reads of loadChunk and     *)
(* the insertion of the chunk.                                             *)
(***************************************************************************)
MaxStamp == 2         \* touches applied to a map
MaxRegionCount == 2   \* region_count of the file being loaded
MaxSignals == 2       \* SIGINT/SIGTERM deliveries

Maps == {1, 2}
\* Region coordinates (along one axis); 0 and 2 share a hash.
Coords == {0, 1, 2}

kSeOk == "kSeOk"
kSeFileReadFailure == "kSeFileReadFailure"
Cancelled == "cancelled"

\* MapRegion::Hash::calculate(): coordinates may share a hash.
RegionHash(coord) == coord % 2

\* A completely read MapChunk of region coord.
MapChunk(coord) == [hash |-> RegionHash(coord), coord |-> coord, complete |-> TRUE]

\* new MapChunk(detail): nothing read yet.
NewMapChunk == [hash |-> -1, coord |-> -1, complete |-> FALSE]
NoChunk == <<>>

\* OccupancyMapDetail::findRegion(): TRUE when an entry of chunks with the
\* hash of region_key has that coordinate.
FindRegion(chunks, region_key) ==
  \E c \in BagToSet(chunks) : c.hash = RegionHash(region_key) /\ c.coord = region_key

\* SerialiseMapProgress::quit()
Quit == g_quit > 1

\* The loop test of v0::load without the poll of the progress observer.
LoopCondition_IgnoreQuit(i, region_count, progress, quit) == i < region_count

\* The loop test of v0::load.
LoopCondition(i, region_count, progress, quit) ==
  i < region_count /\ (~progress \/ ~quit)

\* The files read: region records with a coordinate, all complete except
\* that the last may lack its voxel data (a truncated file), and a header
\* count region_count that may exceed the records present.
Files ==
  { f \in UNION { [1..n -> [coord : Coords, data : BOOLEAN]] : n \in 0..MaxRegionCount } :
      \A k \in 1..Len(f) : k < Len(f) => f[k].data }

NoLoad == [pc |-> "idle"]

\* Two new maps.
InitMapVars ==
  /\ detail = [m \in Maps |-> [stamp |-> 0, chunks |-> EmptyBag]]
  /\ g_quit = 0
  /\ load = NoLoad

\* The maps before a load: each is new or holds one created region, its
\* stamp the number of regions.
InitLoadVars ==
  /\ detail \in { d \in [Maps -> [stamp : {0, 1},
                                   chunks : { SetToBag({ MapChunk(c) : c \in S }) : S \in SUBSET Coords }]] :
                    \A m \in Maps : d[m].stamp = BagCardinality(d[m].chunks) }
  /\ g_quit = 0
  /\ load = NoLoad

\* onSignal(): one more SIGINT or SIGTERM.
Signal ==
  /\ g_quit < MaxSignals
  /\ g_quit' = g_quit + 1
  /\ UNCHANGED <<detail, load>>
  /\ UNCHANGED <<keyVars, bufVars, ndtVars, hmVars, objVars>>

\* OccupancyMap::touch(): the stamp moves on.
Touch(m) ==
  /\ detail[m].stamp < MaxStamp
  /\ detail' = [detail EXCEPT ![m].stamp = @ + 1]
  /\ UNCHANGED <<g_quit, load>>
  /\ UNCHANGED <<keyVars, bufVars, ndtVars, hmVars, objVars>>

\* Region creation through findRegion: the chunk is added only when no entry
\* has the coordinate, and the map is touched.
CreateRegion(m, coord) ==
  /\ detail[m].stamp < MaxStamp
  /\ ~FindRegion(detail[m].chunks, coord)
  /\ detail' = [detail EXCEPT ![m].chunks = @ (+) SetToBag({MapChunk(coord)}),
                              ![m].stamp = @ + 1]
  /\ UNCHANGED <<g_quit, load>>
  /\ UNCHANGED <<keyVars, bufVars, ndtVars, hmVars, objVars>>

\* OccupancyMapDetail::copyFrom(other) on map m: of the state kept here the
\* stamp is copied; the chunks are not.
CopyFrom(m, other) ==
  /\ m # other
  /\ detail' = [detail EXCEPT ![m].stamp = detail[other].stamp]
  /\ UNCHANGED <<g_quit, load>>
  /\ UNCHANGED <<keyVars, bufVars, ndtVars, hmVars, objVars>>

\* v0::load() up to its loop: err = kSeOk, no chunk, i = 0.
LoadBegin(m, file, region_count, progress) ==
  /\ load.pc = "idle"
  /\ region_count >= Len(file)
  /\ load' = [pc |-> "test", map |-> m, file |-> file, region_count |-> region_count,
              progress |-> progress, i |-> 0, err |-> kSeOk, chunk |-> NoChunk,
              quit |-> FALSE]
  /\ UNCHANGED <<detail, g_quit>>
  /\ UNCHANGED <<keyVars, bufVars, ndtVars, hmVars, objVars>>

\* The loop test: the observer is polled only when i < region_count and a
\* progress observer was given; the body starts with a new chunk, otherwise
\* load returns err.
LoadLoopTest ==
  /\ load.pc = "test"
  /\ LET polled == load.i < load.region_count /\ load.progress
         quit == polled /\ Quit
     IN  IF LoopCondition(load.i, load.region_count, load.progress, Quit)
           THEN load' = [load EXCEPT !.pc = "header", !.chunk = NewMapChunk, !.quit = quit]
           ELSE load' = [load EXCEPT !.pc = "done", !.quit = quit]
  /\ UNCHANGED <<detail, g_quit>>
  /\ UNCHANGED <<keyVars, bufVars, ndtVars, hmVars, objVars>>

\* The failure branch keeping the chunk and carrying on to the insertion.
LoadFailed_Continue(l, err) == [l EXCEPT !.pc = "insert", !.err = err]

\* if (err) { delete chunk; return err; }
LoadFailed(l, err) == [l EXCEPT !.pc = "done", !.err = err, !.chunk = NoChunk]

\* loadChunk(), the reads of the region coordinate, centre and touched time:
\* a failure deletes the chunk and load returns kSeFileReadFailure.
LoadChunkHeader ==
  /\ load.pc = "header"
  /\ IF load.i + 1 <= Len(load.file)
       THEN load' = [load EXCEPT !.pc = "data",
                                 !.chunk = [@ EXCEPT !.coord = load.file[load.i + 1].coord,
                                                     !.hash = RegionHash(load.file[load.i + 1].coord)]]
       ELSE load' = LoadFailed(load, kSeFileReadFailure)
  /\ UNCHANGED <<detail, g_quit>>
  /\ UNCHANGED <<keyVars, bufVars, ndtVars, hmVars, objVars>>

\* loadChunk(), the read of the voxel data: a short read deletes the chunk and
\* load returns kSeFileReadFailure.
LoadChunkData ==
  /\ load.pc = "data"
  /\ IF load.file[load.i + 1].data
       THEN load' = [load EXCEPT !.pc = "insert", !.chunk = [@ EXCEPT !.complete = TRUE]]
       ELSE load' = LoadFailed(load, kSeFileReadFailure)
  /\ UNCHANGED <<detail, g_quit>>
  /\ UNCHANGED <<keyVars, bufVars, ndtVars, hmVars, objVars>>

\* The end of the loop body: the chunk goes into detail.chunks, progress is
\* incremented and i moves on.
LoadInsert ==
  /\ load.pc = "insert"
  /\ detail' = [detail EXCEPT ![load.map].chunks = @ (+) SetToBag({load.chunk})]
  /\ load' = [load EXCEPT !.pc = "test", !.i = @ + 1, !.chunk = NoChunk]
  /\ UNCHANGED g_quit
  /\ UNCHANGED <<keyVars, bufVars, ndtVars, hmVars, objVars>>

NextMap ==
  \/ \E m \in Maps : Touch(m)
  \/ \E m \in Maps, coord \in Coords : CreateRegion(m, coord)
  \/ \E m \in Maps, other \in Maps : CopyFrom(m, other)

InitMap == InitMapVars /\ IdleKeyVars /\ IdleBufVars /\ IdleNdtVars /\ IdleHmVars /\ IdleObjVars

SpecMap == InitMap /\ [][NextMap]_vars

NextLoad ==
  \/ Signal
  \/ \E m \in Maps, file \in Files, region_count \in 0..MaxRegionCount, progress \in BOOLEAN :
       LoadBegin(m, file, region_count, progress)
  \/ LoadLoopTest
  \/ LoadChunkHeader
  \/ LoadChunkData
  \/ LoadInsert

InitLoad == InitLoadVars /\ IdleKeyVars /\ IdleBufVars /\ IdleNdtVars /\ IdleHmVars /\ IdleObjVars

SpecLoad == InitLoad /\ [][NextLoad]_vars

\* Every region in a chunk map has been read completely.
AllRegionsComplete ==
  \A m \in Maps : \A c \in BagToSet(detail[m].chunks) :
    c.complete /\ c.hash = RegionHash(c.coord)

\* A step of v0::load that starts the read of a region.
StartsRegion == load.pc = "test" /\ load'.pc = "header"

\* C17: once the progress observer of a load reports quit (quit() is true)
\* the load starts the read of no further region, and at every moment every
\* region in the map has been read completely: a chunk is inserted only
\* after both reads of loadChunk succeeded.
C17_LoadCancellation ==
  /\ [][(load.pc # "idle" /\ load.progress /\ Quit) => ~StartsRegion]_vars
  /\ []AllRegionsComplete

\* C17 witness: a load that stopped on quit after inserting some but not all
\* of the regions of its file.
C17_Witness ==
  /\ load.pc = "done"
  /\ load.progress /\ load.quit /\ Quit
  /\ load.i >= 1
  /\ load.i < Len(load.file)
  /\ BagCardinality(detail[load.map].chunks) >= load.i
  /\ AllRegionsComplete

\* C30: when the read of a region fails in v0::load, the step that sets the
\* error returns at once with the chunk discarded and the map as it was; the
\* load that failed starts no further region and changes the map no more;
\* no step removes a region from a map, so the regions loaded before the
\* failure remain; and no incompletely read chunk is ever in a map.
C30_LoadFailure ==
  /\ [][ /\ (load.pc \in {"header", "data"} /\ load'.err # kSeOk) =>
              (load'.pc = "done" /\ load'.chunk = NoChunk /\ detail' = detail)
         /\ (load.pc = "done" /\ load.err # kSeOk) =>
              (load'.pc = "done" /\ load'.i = load.i /\ detail' = detail)
         /\ \A m \in Maps : detail[m].chunks \sqsubseteq detail'[m].chunks ]_vars
  /\ [](\A m \in Maps : \A c \in BagToSet(detail[m].chunks) : c.complete)

\* C30 witness: a load has failed on its second region: it returned the read
\* failure with the first region in the map and no chunk in hand.
C30_Witness ==
  /\ load.pc = "done"
  /\ load.err = kSeFileReadFailure
  /\ load.i = 1
  /\ load.i < load.region_count
  /\ load.chunk = NoChunk
  /\ \E c \in BagToSet(detail[load.map].chunks) : c.coord = load.file[1].coord

\* C18: a load that ends because the progress observer requested quit
\* reports the cancelled error kind.
C18_QuitReportsCancelled ==
  (load.pc = "done" /\ load.quit) => load.err = Cancelled

\* C19: no operation lowers the stamp of a map, and an operation that changes
\* the regions of a map raises its stamp.
C19_StampMonotone ==
  [][\A m \in Maps :
       /\ detail'[m].stamp >= detail[m].stamp
       /\ detail'[m].chunks # detail[m].chunks => detail'[m].stamp > detail[m].stamp]_vars

\* C20: no two entries of a chunk map have the same region coordinate.
C20_RegionCoordUnique ==
  \A m \in Maps : \A c \in BagToSet(detail[m].chunks) :
    /\ CopiesIn(c, detail[m].chunks) = 1
    /\ \A d \in BagToSet(detail[m].chunks) : d.coord = c.coord => d = c

-----------------------------------------------------------------------------
(***************************************************************************)
(* v0::loadChunk: the legacy block of interleaved occupancy and clearance  *)
(* values.  The stream is the sequence of floats left in the file after    *)
(* the region details.                                                     *)
(***************************************************************************)
NodeCount == 2        \* voxels of a region (the product of region_voxel_dimensions)

NodeValues == {1, 2, 3}

\* The floats left in the stream: a whole block or less.
NodeStreams == UNION { [1..n -> NodeValues] : n \in 0..(2 * NodeCount) }

\* std::vector<float> node_data(node_count * 2) after stream.read(): the
\* floats read, zero where the stream ended.
ReadNodeData(stream) ==
  [k \in 1..(2 * NodeCount) |-> IF k <= Len(stream) THEN stream[k] ELSE 0]

\* The copy loop of loadChunk taking the first half of the block as the
\* occupancy values and the second half as the clearance values.
Deinterleave_Halves(node_data) ==
  [occupancy |-> [i \in 0..(NodeCount - 1) |-> node_data[i + 1]],
   clearance |-> [i \in 0..(NodeCount - 1) |-> node_data[NodeCount + i + 1]]]

\* The copy loop of loadChunk: writeVoxel(i, node_data[2i]) to the occupancy
\* buffer and writeVoxel(i, node_data[2i + 1]) to the clearance buffer.
Deinterleave(node_data) ==
  [occupancy |-> [i \in 0..(NodeCount - 1) |-> node_data[2 * i + 1]],
   clearance |-> [i \in 0..(NodeCount - 1) |-> node_data[2 * i + 2]]]

\* v0::loadChunk(): ok is the result of the reads of the region details;
\* the block is read and copied only when they succeeded.
LoadChunk(ok, stream) ==
  IF ~ok THEN [err |-> kSeFileReadFailure, copied |-> FALSE]
  ELSE The({ [err |-> IF Len(stream) >= 2 * NodeCount THEN kSeOk ELSE kSeFileReadFailure,
              copied |-> TRUE,
              occupancy |-> buffers_out.occupancy,
              clearance |-> buffers_out.clearance] :
             buffers_out \in {Deinterleave(ReadNodeData(stream))} })

InitChunkVars ==
  /\ detail = <<>>
  /\ g_quit = 0
  /\ load \in [pc : {"chunk"}, ok : BOOLEAN, stream : NodeStreams]

\* One call of loadChunk on the stream.
LoadChunkCall ==
  /\ load.pc = "chunk"
  /\ load' = [pc |-> "chunk_done", ok |-> load.ok, stream |-> load.stream,
              result |-> LoadChunk(load.ok, load.stream)]
  /\ UNCHANGED <<detail, g_quit>>
  /\ UNCHANGED <<keyVars, bufVars, ndtVars, hmVars, objVars>>

NextChunk == LoadChunkCall

InitChunk == InitChunkVars /\ IdleKeyVars /\ IdleBufVars /\ IdleNdtVars /\ IdleHmVars /\ IdleObjVars

SpecChunk == InitChunk /\ [][NextChunk]_vars

\* C21: loadChunk returns success exactly when the region details and the
\* whole block were read, and a file read failure otherwise; on success
\* occupancy[i] is element 2i and clearance[i] element 2i+1 of the block, for
\* every voxel index i of the region.
C21_Deinterleave ==
  load.pc = "chunk_done" =>
    /\ load.result.err = kSeOk <=> (load.ok /\ Len(load.stream) >= 2 * NodeCount)
    /\ load.result.err # kSeOk => load.result.err = kSeFileReadFailure
    /\ load.result.err = kSeOk =>
         \A i \in 0..(NodeCount - 1) :
           /\ load.result.occupancy[i] = load.stream[2 * i + 1]
           /\ load.result.clearance[i] = load.stream[2 * i + 2]

\* C21 witness: a whole block loaded whose first voxel has different
\* occupancy and clearance values and whose second element differs from its
\* third.
C21_Witness ==
  /\ load.pc = "chunk_done"
  /\ load.result.err = kSeOk
  /\ load.result.occupancy[0] # load.result.clearance[0]
  /\ load.stream[2] # load.stream[3]

-----------------------------------------------------------------------------
(***************************************************************************)
(* Traversal accumulation in one voxel, as decay::testInto and             *)
(* decay::testThrough exercise it: the map origin is set so that the       *)
(* voxel is centred on the origin, and axis aligned rays run along the     *)
(* lines through its centre.  Lengths are in quarters of a metre.          *)
(***************************************************************************)
MaxRays == 3          \* rays integrated into the map
MaxReach == 4         \* ray end points lie within MaxReach of the voxel centre

TravResolutions == {2, 4}
RayCoords == (-MaxReach)..MaxReach

Min(a, b) == IF a < b THEN a ELSE b
Max(a, b) == IF a > b THEN a ELSE b

\* The length of the whole ray, whatever voxels it crosses.
SegmentLength_WholeRay(from, to, resolution) == Abs(to - from)

\* The length of the part of the ray from..to (coordinates on its axis) that
\* lies in the voxel spanning -resolution/2..resolution/2.
SegmentLength(from, to, resolution) ==
  Max(0, Min(Max(from, to), resolution \div 2) - Max(Min(from, to), -(resolution \div 2)))

\* The quarter metre pieces of a ray that lie in the voxel.
PiecesInVoxel(ray, resolution) ==
  { x \in Min(ray.origin, ray.sample)..(Max(ray.origin, ray.sample) - 1) :
      -(resolution \div 2) <= x /\ x + 1 <= resolution \div 2 }

\* A ray that starts outside the voxel (or on its face) and ends at its centre.
RayInto(ray, resolution) == ray.sample = 0 /\ 2 * Abs(ray.origin) >= resolution

\* A ray that starts and ends outside the voxel on opposite sides.
RayThrough(ray, resolution) ==
  /\ ray.origin * ray.sample < 0
  /\ 2 * Abs(ray.origin) >= resolution /\ 2 * Abs(ray.sample) >= resolution

NoRay == [axis |-> 1, origin |-> 0, sample |-> 0]

\* expected_decay_rate is the accumulator of the tests, counted in pieces of
\* the rays inside the voxel; into counts the rays that were RayInto.
InitTravVars ==
  /\ traversal \in [resolution : TravResolutions, value : {0}, count : {0},
                    expected_decay_rate : {0}, into : {0}, ray : {NoRay}]
  /\ normal = <<>> /\ find = <<>> /\ heightmap = <<>> /\ key_list = <<>> /\ occupancy = <<>>

\* RayMapper::integrateRays() of one ray along axis from origin to sample: the
\* traversal value of the voxel grows by the length of the ray in it.
IntegrateRay(axis, origin, sample) ==
  /\ traversal.count < MaxRays
  /\ origin # sample
  /\ LET ray == [axis |-> axis, origin |-> origin, sample |-> sample]
     IN  traversal' = [traversal EXCEPT
                         !.value = @ + SegmentLength(origin, sample, traversal.resolution),
                         !.count = @ + 1,
                         !.expected_decay_rate = @ + Cardinality(PiecesInVoxel(ray, traversal.resolution)),
                         !.into = @ + (IF RayInto(ray, traversal.resolution) THEN 1 ELSE 0),
                         !.ray = ray]
  /\ UNCHANGED <<normal, find, heightmap, key_list, occupancy>>
  /\ UNCHANGED <<keyVars, bufVars, ndtVars, hmVars, mapVars>>

NextTrav == \E axis \in Axes, origin \in RayCoords, sample \in RayCoords : IntegrateRay(axis, origin, sample)

InitTrav == InitTravVars /\ IdleKeyVars /\ IdleBufVars /\ IdleNdtVars /\ IdleHmVars /\ IdleMapVars

SpecTrav == InitTrav /\ [][NextTrav]_vars

\* C22: the traversal value of the voxel is the sum over the rays integrated
\* of the length of each ray inside the voxel, and each ray adds that length:
\* half the resolution for a ray that enters the voxel and ends at its
\* centre, the resolution for a ray that passes through it.
C22_TraversalAccumulation ==
  /\ [](traversal.value = traversal.expected_decay_rate)
  /\ [][LET added == traversal'.value - traversal.value
        IN  /\ added = Cardinality(PiecesInVoxel(traversal'.ray, traversal.resolution))
            /\ RayInto(traversal'.ray, traversal.resolution) => 2 * added = traversal.resolution
            /\ RayThrough(traversal'.ray, traversal.resolution) => added = traversal.resolution]_vars

\* C22 witness: three rays that end at the voxel centre, as in
\* decay::testInto, have been integrated and the value is three half
\* resolutions.
C22_Witness ==
  /\ traversal.count = 3
  /\ traversal.into = 3
  /\ 2 * traversal.value = 3 * traversal.resolution

-----------------------------------------------------------------------------
(***************************************************************************)
(* The packed incident normal of VoxelIncidentCompute.h.  A component of   *)
(* the input normal is a number of halves (x = h / 2); the values used     *)
(* and their products with 0.5 and OHM_NORMAL_QUAT are exact in float.  A  *)
(* decoded component is a number of 1/OHM_NORMAL_QUAT, and the decoded z   *)
(* is kept as its square in 1/OHM_NORMAL_QUAT^2 with its sign.  A packed   *)
(* value is its bits 0..29 as a number (low) and the set of the bits 30    *)
(* and 31 that are set (high).                                             *)
(***************************************************************************)
MaxHalf == 3          \* input components are -MaxHalf/2 .. MaxHalf/2

OHM_NORMAL_QUAT == 16383
OHM_NORMAL_MASK == 16383
OHM_NORMAL_SHIFT_X == 0
OHM_NORMAL_SHIFT_Y == 15
OHM_NORMAL_SET_BIT == 30       \* (1u << 30), by the number of the bit
OHM_NORMAL_SIGN_BIT_Z == 31    \* (1u << 31), by the number of the bit

NormalHalves == (-MaxHalf)..MaxHalf

\* (packed >> shift) & mask, for mask = 2^k - 1
Field(packed, shift, mask) == (packed.low \div 2^shift) % (mask + 1)

\* packed & bit # 0, for one of the two high bits
BitSet(packed, bit) == bit \in packed.high

\* 0.5f * (max(-1, min(c, 1)) + 1), in quarters
UnitRange(h) == Max(-2, Min(h, 2)) + 2

\* encodeNormal(normal)
EncodeNormal(v) ==
  LET x == UnitRange(v.x)
      y == UnitRange(v.y)
      ix == (x * OHM_NORMAL_QUAT) \div 4
      iy == (y * OHM_NORMAL_QUAT) \div 4
      n == (ix % (OHM_NORMAL_MASK + 1)) * 2^OHM_NORMAL_SHIFT_X
             + (iy % (OHM_NORMAL_MASK + 1)) * 2^OHM_NORMAL_SHIFT_Y
  IN  [low |-> n,
       high |-> (IF v.z < 0 THEN {OHM_NORMAL_SIGN_BIT_Z} ELSE {})
                  \cup (IF x # 0 \/ y # 0 \/ v.z # 0 THEN {OHM_NORMAL_SET_BIT} ELSE {})]

\* decodeNormal(packed_normal)
DecodeNormal(packed_normal) ==
  LET q == OHM_NORMAL_QUAT
      x == Max(-q, Min(2 * Field(packed_normal, OHM_NORMAL_SHIFT_X, OHM_NORMAL_MASK) - q, q))
      y == Max(-q, Min(2 * Field(packed_normal, OHM_NORMAL_SHIFT_Y, OHM_NORMAL_MASK) - q, q))
      zz == Max(-(q * q), Min(q * q - (x * x + y * y), q * q))
      set == BitSet(packed_normal, OHM_NORMAL_SET_BIT)
  IN  [x |-> IF set THEN x ELSE 0,
       y |-> IF set THEN y ELSE 0,
       zz |-> IF set THEN zz ELSE 0,
       negative |-> BitSet(packed_normal, OHM_NORMAL_SIGN_BIT_Z)]

InitNormalVars ==
  /\ normal \in [pc : {"in"}, v : [x : NormalHalves, y : NormalHalves, z : NormalHalves]]
  /\ traversal = <<>> /\ find = <<>> /\ heightmap = <<>> /\ key_list = <<>> /\ occupancy = <<>>

\* encodeNormal of the vector, then decodeNormal of the packed value.
EncodeDecode ==
  /\ normal.pc = "in"
  /\ normal' = The({ [pc |-> "done", v |-> normal.v, packed |-> packed,
                      decoded |-> DecodeNormal(packed)] :
                     packed \in {EncodeNormal(normal.v)} })
  /\ UNCHANGED <<traversal, find, heightmap, key_list, occupancy>>
  /\ UNCHANGED <<keyVars, bufVars, ndtVars, hmVars, mapVars>>

NextNormal == EncodeDecode

InitNormal == InitNormalVars /\ IdleKeyVars /\ IdleBufVars /\ IdleNdtVars /\ IdleHmVars /\ IdleMapVars

SpecNormal == InitNormal /\ [][NextNormal]_vars

IsZeroVector(v) == v.x = 0 /\ v.y = 0 /\ v.z = 0

\* C23: the packed normal has bit 30 set exactly when the encoded vector is
\* not the zero vector; the zero vector decodes back to the zero vector, and
\* for a non-zero vector bit 31 is set exactly when z < 0.
C23_ValidityBit ==
  normal.pc = "done" =>
    /\ BitSet(normal.packed, OHM_NORMAL_SET_BIT) <=> ~IsZeroVector(normal.v)
    /\ IsZeroVector(normal.v) =>
         (normal.decoded.x = 0 /\ normal.decoded.y = 0 /\ normal.decoded.zz = 0)
    /\ ~IsZeroVector(normal.v) =>
         (BitSet(normal.packed, OHM_NORMAL_SIGN_BIT_Z) <=> normal.v.z < 0)

\* The sign bit part of C23 alone.
C23_SignBit ==
  normal.pc = "done" => (BitSet(normal.packed, OHM_NORMAL_SIGN_BIT_Z) <=> normal.v.z < 0)

-----------------------------------------------------------------------------
(***************************************************************************)
(* KeyList: a growable array of keys (KeyList.cpp).  keys is the allocated *)
(* array (its length is the capacity), of which the first count entries    *)
(* are in use.  A key is a small number; DefaultKey is the content of a    *)
(* newly allocated entry.  op and grew record the last call and whether it *)
(* allocated a new array.                                                  *)
(***************************************************************************)
MaxInitialCount == 3   \* initial_count of the constructor
MaxListSize == 5       \* largest argument of reserve/resize; push_back/add stop at this count
DefaultReserve == 32
DefaultKey == 0
ListKeys == {1, 2}

RECURSIVE FloorLog2(_)
FloorLog2(v) == IF v < 2 THEN 0 ELSE 1 + FloorLog2(v \div 2)

\* ceilPowerOf2(v), for v >= 1
ceilPowerOf2(v) ==
  LET is_pow2 == v # 0 /\ 2^FloorLog2(v) = v
      next == 2^(1 + FloorLog2(v))
  IN  IF is_pow2 THEN v ELSE next

\* reserve() allocating the new array without copying the keys in use.
Reserve_NoCopy(l, capacity) ==
  IF l.capacity < capacity
    THEN [l EXCEPT !.keys = [i \in 1..capacity |-> DefaultKey], !.capacity = capacity]
    ELSE l

\* KeyList::reserve(capacity)
Reserve(l, capacity) ==
  IF l.capacity < capacity
    THEN [l EXCEPT !.keys = [i \in 1..capacity |->
                               IF i <= l.count THEN l.keys[i] ELSE DefaultKey],
                   !.capacity = capacity]
    ELSE l

\* KeyList::resize(count)
Resize(l, count) ==
  [(IF l.capacity < count THEN Reserve(l, count) ELSE l) EXCEPT !.count = count]

\* KeyList::push_back(key)
PushBack(l, k) ==
  LET r == IF l.count = l.capacity THEN Reserve(l, ceilPowerOf2(l.count + 1)) ELSE l
  IN  [r EXCEPT !.keys[r.count + 1] = k, !.count = r.count + 1]

\* KeyList::add(): the entry after the last one comes into use as it is.
Add(l) ==
  LET r == IF l.count = l.capacity THEN Reserve(l, ceilPowerOf2(l.count + 1)) ELSE l
  IN  [r EXCEPT !.count = r.count + 1]

\* KeyList::KeyList(initial_count)
NewKeyList(initial_count) ==
  LET empty == [keys |-> <<>>, capacity |-> 0, count |-> 0]
  IN  IF initial_count # 0
        THEN Resize(empty, ceilPowerOf2(initial_count))
        ELSE Reserve(empty, DefaultReserve)

InitListVars ==
  /\ key_list \in { [list |-> NewKeyList(initial_count), op |-> "KeyList", grew |-> FALSE] :
                    initial_count \in 0..MaxInitialCount }
  /\ traversal = <<>> /\ normal = <<>> /\ find = <<>> /\ heightmap = <<>> /\ occupancy = <<>>

ListCall(op, l) ==
  /\ key_list' = [list |-> l, op |-> op, grew |-> l.capacity # key_list.list.capacity]
  /\ UNCHANGED <<traversal, normal, find, heightmap, occupancy>>
  /\ UNCHANGED <<keyVars, bufVars, ndtVars, hmVars, mapVars>>

ListReserve(capacity) == ListCall("reserve", Reserve(key_list.list, capacity))

ListResize(count) == ListCall("resize", Resize(key_list.list, count))

ListPushBack(k) ==
  /\ key_list.list.count < MaxListSize
  /\ ListCall("push_back", PushBack(key_list.list, k))

ListAdd ==
  /\ key_list.list.count < MaxListSize
  /\ ListCall("add", Add(key_list.list))

NextList ==
  \/ \E capacity \in 0..MaxListSize : ListReserve(capacity)
  \/ \E count \in 0..MaxListSize : ListResize(count)
  \/ \E k \in ListKeys : ListPushBack(k)
  \/ ListAdd

InitList == InitListVars /\ IdleKeyVars /\ IdleBufVars /\ IdleNdtVars /\ IdleHmVars /\ IdleMapVars

SpecList == InitList /\ [][NextList]_vars

\* The list's array is as long as its capacity and the used part fits in it.
ListWellFormed(l) == Len(l.keys) = l.capacity /\ l.count >= 0 /\ l.count <= l.capacity

\* C27: after any sequence of reserve, resize, push_back and add calls,
\* count <= capacity; no call decreases the capacity; every key in use before
\* and after a call keeps its value and index, in particular across a growth
\* of the capacity; push_back and add each increase count by exactly one, and
\* push_back stores its key in the entry that came into use.
C27_KeyListInvariant ==
  /\ [](ListWellFormed(key_list.list))
  /\ [][ /\ key_list'.list.capacity >= key_list.list.capacity
         /\ \A i \in 1..Min(key_list.list.count, key_list'.list.count) :
              key_list'.list.keys[i] = key_list.list.keys[i]
         /\ key_list'.op \in {"push_back", "add"} =>
              key_list'.list.count = key_list.list.count + 1
         /\ key_list'.op = "push_back" =>
              key_list'.list.keys[key_list'.list.count] \in ListKeys ]_vars

\* C27 witness: a push_back on a full list has just grown the array, and the
\* keys pushed before it are in the new array.
C27_Witness ==
  /\ key_list.op = "push_back"
  /\ key_list.grew
  /\ key_list.list.count >= 3
  /\ \A i \in 1..key_list.list.count : key_list.list.keys[i] # DefaultKey

-----------------------------------------------------------------------------
(***************************************************************************)
(* findRegion() over the entries of the chunk multimap in iteration order  *)
(* (OccupancyMapDetail.h).  chunks is the sequence of entries as the       *)
(* container iterates them: entries with equal hash are adjacent, and      *)
(* find(hash) gives the first entry of that hash.  An iterator is an index *)
(* into the sequence, Len + 1 being end().                                 *)
(***************************************************************************)
MaxChunks == 3

\* chunks.end()
End(chunks) == Len(chunks) + 1

\* Entries of one hash are adjacent in the iteration order.
Grouped(chunks) ==
  \A a \in 1..Len(chunks), b \in 1..Len(chunks), c \in 1..Len(chunks) :
    (a < b /\ b < c /\ chunks[a].hash = chunks[c].hash) => chunks[b].hash = chunks[a].hash

ChunkMaps ==
  { chunks \in UNION { [1..n -> { MapChunk(coord) : coord \in Coords }] : n \in 0..MaxChunks } :
      Grouped(chunks) }

\* chunks.find(region_hash)
MapFind(chunks, region_hash) ==
  IF \E a \in 1..Len(chunks) : chunks[a].hash = region_hash
    THEN CHOOSE a \in 1..Len(chunks) :
           /\ chunks[a].hash = region_hash
           /\ \A b \in 1..(a - 1) : chunks[b].hash # region_hash
    ELSE End(chunks)

\* findRegion() returning the entry found by find() when it has the
\* coordinate, without walking the entries of the hash.
FindRegionIter_NoWalk(chunks, region_key) ==
  LET iter == MapFind(chunks, RegionHash(region_key))
  IN  IF iter # End(chunks) /\ chunks[iter].coord = region_key THEN iter ELSE End(chunks)

\* The while loop of findRegion()
RECURSIVE FindRegionWalk(_, _, _, _)
FindRegionWalk(chunks, iter, region_hash, region_key) ==
  IF iter # End(chunks) /\ chunks[iter].hash = region_hash /\ chunks[iter].coord # region_key
    THEN FindRegionWalk(chunks, iter + 1, region_hash, region_key)
    ELSE iter

\* OccupancyMapDetail::findRegion(chunks, region_key), as an iterator
FindRegionIter(chunks, region_key) ==
  LET region_hash == RegionHash(region_key)
      iter == FindRegionWalk(chunks, MapFind(chunks, region_hash), region_hash, region_key)
  IN  IF iter # End(chunks) /\ chunks[iter].hash = region_hash /\ chunks[iter].coord = region_key
        THEN iter
        ELSE End(chunks)

InitFindVars ==
  /\ find \in [pc : {"call"}, chunks : ChunkMaps, region_key : Coords]
  /\ traversal = <<>> /\ normal = <<>> /\ heightmap = <<>> /\ key_list = <<>> /\ occupancy = <<>>

FindRegionCall ==
  /\ find.pc = "call"
  /\ find' = [pc |-> "done", chunks |-> find.chunks, region_key |-> find.region_key,
              iter |-> FindRegionIter(find.chunks, find.region_key)]
  /\ UNCHANGED <<traversal, normal, heightmap, key_list, occupancy>>
  /\ UNCHANGED <<keyVars, bufVars, ndtVars, hmVars, mapVars>>

NextFind == FindRegionCall

InitFind == InitFindVars /\ IdleKeyVars /\ IdleBufVars /\ IdleNdtVars /\ IdleHmVars /\ IdleMapVars

SpecFind == InitFind /\ [][NextFind]_vars

\* C25: findRegion tolerates hash collisions: whenever a chunk with the
\* coordinate region_key is stored, the iterator returned is at an entry with
\* that coordinate, also when other chunks of the same hash are stored; when
\* no stored chunk has the coordinate it returns end().
C25_FindRegionCollisions ==
  find.pc = "done" =>
    IF \E a \in 1..Len(find.chunks) : find.chunks[a].coord = find.region_key
      THEN /\ find.iter \in 1..Len(find.chunks)
           /\ find.chunks[find.iter].coord = find.region_key
      ELSE find.iter = End(find.chunks)

\* C25 witness: the chunk found comes after a chunk of another coordinate
\* and the same hash.
C25_Witness ==
  /\ find.pc = "done"
  /\ find.iter \in 2..Len(find.chunks)
  /\ find.chunks[1].hash = RegionHash(find.region_key)
  /\ find.chunks[1].coord # find.region_key
  /\ find.chunks[find.iter].coord = find.region_key

-----------------------------------------------------------------------------
(***************************************************************************)
(* Heightmap::buildHeightmap() as a whole (Heightmap.cpp).  The source map *)
(* is given by what the column searches end at: for each column the class  *)
(* of the voxel at its ground key.  heightmap holds the source map pointer *)
(* (NoMap for nullptr), the generate_virtual_surface setting, the result   *)
(* map (voxels per cell, voxel mean layer, map info), the value returned   *)
(* by the last buildHeightmap() and the last call made.                    *)
(***************************************************************************)
NumCells == 2

Cells == 1..NumCells
NoMap == <<>>
NoCell == 0

\* Source maps: per column the class of the ground voxel; whether voxel mean
\* is enabled; whether the walker has a first key inside its extents.
SourceMaps ==
  [ground : [Cells -> {"kNull", "kUnobserved", "kFree", "kOccupied"}],
   voxel_mean : BOOLEAN,
   begin : BOOLEAN]

\* heightmap.clear() keeping the voxels of the previous result.
ClearHeightmap_Keep(voxels) == voxels

\* heightmap.clear()
ClearHeightmap(voxels) == [c \in Cells |-> NoCell]

\* The cell the loop of buildHeightmapT writes for a column whose ground
\* voxel has class voxel_type: its occupancy value, or the value before.
WriteCell(before, voxel_type, generate_virtual_surface) ==
  IF /\ EmitsSurface(voxel_type, generate_virtual_surface)
     /\ voxel_type # "kUnobserved"
     /\ voxel_type # "kNull"
    THEN IF voxel_type = "kOccupied" THEN kHeightmapSurfaceValue ELSE kHeightmapVirtualSurfaceValue
    ELSE before

\* populated_count of buildHeightmapT
PopulatedCount(src_map, generate_virtual_surface) ==
  Cardinality({ c \in Cells : WriteCell(NoCell, src_map.ground[c], generate_virtual_surface) # NoCell })

\* Heightmap::buildHeightmapT(walker, reference_pos)
BuildHeightmapT(h) ==
  LET src_map == h.occupancy_map
      cleared == [h EXCEPT !.info = [generate_virtual_surface |-> h.generate_virtual_surface],
                           !.voxels = ClearHeightmap(h.voxels),
                           !.mean_layer = h.mean_layer \/ src_map.voxel_mean]
  IN  IF ~src_map.begin
        THEN [cleared EXCEPT !.result = FALSE]
        ELSE [cleared EXCEPT
                !.voxels = [c \in Cells |->
                              WriteCell(cleared.voxels[c], src_map.ground[c], h.generate_virtual_surface)],
                !.result = PopulatedCount(src_map, h.generate_virtual_surface) # 0]

\* Heightmap::buildHeightmap(reference_pos, cull_to)
BuildHeightmapResult(h) ==
  IF h.occupancy_map = NoMap
    THEN [h EXCEPT !.result = FALSE]
    ELSE BuildHeightmapT(h)

\* Heightmap::Heightmap(): no source map, an empty heightmap.
InitBuildVars ==
  /\ heightmap = [occupancy_map |-> NoMap,
                  generate_virtual_surface |-> FALSE,
                  voxels |-> [c \in Cells |-> NoCell],
                  mean_layer |-> FALSE,
                  info |-> [generate_virtual_surface |-> FALSE],
                  result |-> FALSE,
                  op |-> "Heightmap"]
  /\ traversal = <<>> /\ normal = <<>> /\ find = <<>> /\ key_list = <<>> /\ occupancy = <<>>

BuildFrame ==
  /\ UNCHANGED <<traversal, normal, find, key_list, occupancy>>
  /\ UNCHANGED <<keyVars, bufVars, ndtVars, hmVars, mapVars>>

\* Heightmap::setOccupancyMap(map)
SetOccupancyMap(map) ==
  /\ heightmap' = [heightmap EXCEPT !.occupancy_map = map, !.op = "setOccupancyMap"]
  /\ BuildFrame

\* Heightmap::setGenerateVirtualSurface(enable)
SetGenerateVirtualSurface(enable) ==
  /\ heightmap' = [heightmap EXCEPT !.generate_virtual_surface = enable,
                                    !.op = "setGenerateVirtualSurface"]
  /\ BuildFrame

BuildHeightmap ==
  /\ heightmap' = [BuildHeightmapResult(heightmap) EXCEPT !.op = "buildHeightmap"]
  /\ BuildFrame

NextBuild ==
  \/ \E map \in SourceMaps \cup {NoMap} : SetOccupancyMap(map)
  \/ \E enable \in BOOLEAN : SetGenerateVirtualSurface(enable)
  \/ BuildHeightmap

InitBuild == InitBuildVars /\ IdleKeyVars /\ IdleBufVars /\ IdleNdtVars /\ IdleHmVars /\ IdleMapVars

SpecBuild == InitBuild /\ [][NextBuild]_vars

\* The cells of a result map that hold a heightmap voxel.
WrittenCells(voxels) == { c \in Cells : voxels[c] # NoCell }

\* C26: buildHeightmap with no source map set returns false and leaves the
\* heightmap generated before (voxels, layout, map info) unchanged; with a
\* source map set nothing of the previous result survives (every cell of the
\* heightmap afterwards comes from an observed ground voxel of this source)
\* and it returns true exactly when at least one cell was written.
C26_BuildWithoutSource ==
  [][ heightmap'.op = "buildHeightmap" =>
        IF heightmap.occupancy_map = NoMap
          THEN /\ heightmap'.result = FALSE
               /\ heightmap'.voxels = heightmap.voxels
               /\ heightmap'.mean_layer = heightmap.mean_layer
               /\ heightmap'.info = heightmap.info
          ELSE /\ \A c \in WrittenCells(heightmap'.voxels) :
                    heightmap.occupancy_map.ground[c] \in {"kFree", "kOccupied"}
               /\ heightmap'.result = (WrittenCells(heightmap'.voxels) # {}) ]_vars

\* C26 witness: buildHeightmap has returned false for want of a source map
\* while the heightmap of an earlier build still has its cells.
C26_Witness ==
  /\ heightmap.op = "buildHeightmap"
  /\ heightmap.occupancy_map = NoMap
  /\ heightmap.result = FALSE
  /\ WrittenCells(heightmap.voxels) = Cells
  /\ heightmap.mean_layer

-----------------------------------------------------------------------------
(***************************************************************************)
(* The occupancy configuration of OccupancyMapDetail and copyFrom()        *)
(* (OccupancyMapDetail.cpp).  Each map keeps the hit, miss and threshold   *)
(* settings twice: as log-odds value (tenths) and as the probability       *)
(* (eighths) the value was computed from.  chunks and info stand for the   *)
(* map's regions and meta information.  op is the last call made.          *)
(***************************************************************************)
HitProbabilities == {5, 6}
MissProbabilities == {2}
ThresholdProbabilities == {5}

\* probabilityToValue(probability): log(p / (1 - p)), in tenths, of a
\* probability in eighths.
ProbabilityToValue(probability) ==
  CASE probability = 2 -> -11
    [] probability = 3 -> -5
    [] probability = 4 -> 0
    [] probability = 5 -> 5
    [] probability = 6 -> 11

\* OccupancyMapDetail as declared: every setting zero.
NewDetail(chunks, info) ==
  [occupancy_threshold_value |-> 0, occupancy_threshold_probability |-> 0,
   hit_value |-> 0, hit_probability |-> 0,
   miss_value |-> 0, miss_probability |-> 0,
   chunks |-> chunks, info |-> info]

\* OccupancyMap::setHitProbability(probability)
SetHitProbabilityOf(d, probability) ==
  [d EXCEPT !.hit_probability = probability, !.hit_value = ProbabilityToValue(probability)]

\* OccupancyMap::setMissProbability(probability)
SetMissProbabilityOf(d, probability) ==
  [d EXCEPT !.miss_probability = probability, !.miss_value = ProbabilityToValue(probability)]

\* OccupancyMap::setOccupancyThresholdProbability(probability)
SetOccupancyThresholdProbabilityOf(d, probability) ==
  [d EXCEPT !.occupancy_threshold_probability = probability,
            !.occupancy_threshold_value = ProbabilityToValue(probability)]

\* OccupancyMapDetail::copyFrom(other): of the fields kept here it assigns
\* the three values; it has no assignment to the three probabilities, to
\* chunks or to info.
CopyFromDetail(self, other) ==
  [self EXCEPT !.occupancy_threshold_value = other.occupancy_threshold_value,
               !.hit_value = other.hit_value,
               !.miss_value = other.miss_value]

\* Two maps as constructed, with different regions and meta information.
InitOccVars ==
  /\ occupancy = [map |-> [m \in Maps |-> NewDetail({m}, m)], op |-> <<"OccupancyMap">>]
  /\ traversal = <<>> /\ normal = <<>> /\ find = <<>> /\ heightmap = <<>> /\ key_list = <<>>

OccFrame ==
  /\ UNCHANGED <<traversal, normal, find, heightmap, key_list>>
  /\ UNCHANGED <<keyVars, bufVars, ndtVars, hmVars, mapVars>>

SetHitProbability(m, probability) ==
  /\ occupancy' = [map |-> [occupancy.map EXCEPT ![m] = SetHitProbabilityOf(@, probability)],
                   op |-> <<"setHitProbability", m>>]
  /\ OccFrame

SetMissProbability(m, probability) ==
  /\ occupancy' = [map |-> [occupancy.map EXCEPT ![m] = SetMissProbabilityOf(@, probability)],
                   op |-> <<"setMissProbability", m>>]
  /\ OccFrame

SetOccupancyThresholdProbability(m, probability) ==
  /\ occupancy' = [map |-> [occupancy.map EXCEPT ![m] = SetOccupancyThresholdProbabilityOf(@, probability)],
                   op |-> <<"setOccupancyThresholdProbability", m>>]
  /\ OccFrame

CopyFromCall(m, other) ==
  /\ m # other
  /\ occupancy' = [map |-> [occupancy.map EXCEPT ![m] = CopyFromDetail(@, occupancy.map[other])],
                   op |-> <<"copyFrom", m, other>>]
  /\ OccFrame

NextOcc ==
  \/ \E m \in Maps, probability \in HitProbabilities : SetHitProbability(m, probability)
  \/ \E m \in Maps, probability \in MissProbabilities : SetMissProbability(m, probability)
  \/ \E m \in Maps, probability \in ThresholdProbabilities : SetOccupancyThresholdProbability(m, probability)
  \/ \E m \in Maps, other \in Maps : CopyFromCall(m, other)

InitOcc == InitOccVars /\ IdleKeyVars /\ IdleBufVars /\ IdleNdtVars /\ IdleHmVars /\ IdleMapVars

SpecOcc == InitOcc /\ [][NextOcc]_vars

\* The step is copyFrom(other) on map m.
IsCopyFrom(m, other) == occupancy'.op = <<"copyFrom", m, other>>

\* C28: after copyFrom(other) the receiver's hit, miss and threshold values
\* and their cached probabilities all equal other's, and the receiver's
\* chunks and map info are as before the call.
C28_CopyFromConfiguration ==
  [][ \A m \in Maps, other \in Maps :
        IsCopyFrom(m, other) =>
          /\ occupancy'.map[m].hit_value = occupancy.map[other].hit_value
          /\ occupancy'.map[m].miss_value = occupancy.map[other].miss_value
          /\ occupancy'.map[m].occupancy_threshold_value = occupancy.map[other].occupancy_threshold_value
          /\ occupancy'.map[m].hit_probability = occupancy.map[other].hit_probability
          /\ occupancy'.map[m].miss_probability = occupancy.map[other].miss_probability
          /\ occupancy'.map[m].occupancy_threshold_probability =
               occupancy.map[other].occupancy_threshold_probability
          /\ occupancy'.map[m].chunks = occupancy.map[m].chunks
          /\ occupancy'.map[m].info = occupancy.map[m].info ]_vars

\* The part of C28 about the values, the chunks and the map info.
C28_ValuesCopiedChunksKept ==
  [][ \A m \in Maps, other \in Maps :
        IsCopyFrom(m, other) =>
          /\ occupancy'.map[m].hit_value = occupancy.map[other].hit_value
          /\ occupancy'.map[m].miss_value = occupancy.map[other].miss_value
          /\ occupancy'.map[m].occupancy_threshold_value = occupancy.map[other].occupancy_threshold_value
          /\ occupancy'.map[m].chunks = occupancy.map[m].chunks
          /\ occupancy'.map[m].info = occupancy.map[m].info ]_vars

=============================================================================
